---- MODULE Spec2Model ----
(***************************************************************************)
(* RainbowFinder: the rainbow-probability scorer                           *)
(* (RainbowCalculator.calculateRainbowProbability and its helpers).        *)
(*                                                                         *)
(* Numbers.  The program computes in IEEE doubles; the model computes in   *)
(* fixed point:                                                            *)
(*   - angles (altitude, azimuth, elevation) in tenths of a degree;        *)
(*   - factors in units of 1/Unit (Unit = 1.0);                            *)
(*   - the running probability in thousandths of a percent (100% = 100000);*)
(*   - the returned probability in tenths of a percent (what               *)
(*     Math.round(p * 10) / 10 leaves).                                    *)
(* Every division truncates; a modelled probability is within 0.03        *)
(* percentage points of the double the program computes.                   *)
(*                                                                         *)
(* Strings.  The weather description is Russian or English text; the       *)
(* model writes the Russian words in Latin letters: "dozhd" (rain),        *)
(* "legkiy" (light), "yasno" (clear), "solnechno" (sunny), "peremennaya"   *)
(* (partly), "tuman" (mist), "pasmurno" (overcast).                        *)
(***************************************************************************)
EXTENDS Integers, Sequences, FiniteSets, TLC

VARIABLES
  conditions,   \* the argument of calculateRainbowProbability
  sun,          \* what SunCalculator.calculateSunPosition returns for it
  pc,           \* "ready" before the call; after it, "returned" or "thrown"
  result,       \* the returned assessment (NoResult before the call)
  logs,         \* Logger.logs, newest entry first
  calculated,       \* WeatherService: what the calculator returns, hour by hour
  fetchOk,          \* whether getDetailedForecast resolves
  rainbowForecasts, \* the entries getRainbowForecast built
  nextOptimal,      \* what getNextOptimalConditions resolved to
  spc,              \* "ready" before getNextOptimalConditions, "done" after
  hourly,           \* getRainbowForecast: forecast.hourly with each hour's sun angle
  now,              \* the wall clock (new Date()), minutes of the day
  sunTimes,         \* SunCalculator.calculateSunTimes(latitude, longitude, now)
  forecast,         \* the entries getRainbowForecast returned
  fpc,              \* "ready" before getRainbowForecast, "done" after
  solarInput,       \* calculateSolarEvents: the intermediate values of the day
  solarEvents,      \* what calculateSolarEvents returned
  epc,              \* "ready" before calculateSolarEvents, "done" after
  apiCallCount,       \* WeatherMonitorService.apiCallCount
  issued,             \* weather requests sent since the last resetDailyApiCount
  monitoredLocations, \* WeatherMonitorService.monitoredLocations, in insertion order
  users,              \* NotificationService.users
  runs,               \* the checkAllLocations runs started by the cron job
  lastResponse,       \* the HTTP response of the latest /api/notifications request
  altitudeArg,      \* the argument of a calculateSunAngleFactor call
  angleFactor,      \* what the call returned
  apc,              \* "ready" before the call, "done" after
  factorInput,      \* the weather snapshot and sun altitude the factor stage is given
  factorOutput,     \* the weather factors and the base probability computed from them
  wpc,              \* "ready" before the factor stage, "done" after
  isMounted,        \* App isMountedRef.current
  updateInProgress, \* App updateInProgressRef.current
  hasLocation,      \* App whether the location state is set
  permissionsGranted,\* App the permissionsGranted state
  loading,          \* App the loading state
  refreshing,       \* App the refreshing state
  updates           \* App the updateRainbowData calls, one per trigger

scorerVars == <<conditions, sun, pc, result, logs>>
searchVars == <<calculated, fetchOk, rainbowForecasts, nextOptimal, spc>>
forecastVars == <<hourly, now, sunTimes, forecast, fpc>>
solarVars == <<solarInput, solarEvents, epc>>
monitorVars == <<apiCallCount, issued, monitoredLocations, users, runs, lastResponse>>

angleVars == <<altitudeArg, angleFactor, apc>>
factorVars == <<factorInput, factorOutput, wpc>>
appVars == <<isMounted, updateInProgress, hasLocation, permissionsGranted, loading, refreshing, updates>>

vars == <<scorerVars, searchVars, forecastVars, solarVars, monitorVars, angleVars, factorVars, appVars>>

\* what each component leaves alone
notScorer == <<searchVars, forecastVars, solarVars, monitorVars, angleVars, factorVars, appVars>>
notSearch == <<scorerVars, forecastVars, solarVars, monitorVars, angleVars, factorVars, appVars>>
notForecast == <<scorerVars, searchVars, solarVars, monitorVars, angleVars, factorVars, appVars>>
notSolar == <<scorerVars, searchVars, forecastVars, monitorVars, angleVars, factorVars, appVars>>
notMonitor == <<scorerVars, searchVars, forecastVars, solarVars, angleVars, factorVars, appVars>>
notAngle == <<scorerVars, searchVars, forecastVars, solarVars, monitorVars, factorVars, appVars>>
notFactor == <<scorerVars, searchVars, forecastVars, solarVars, monitorVars, angleVars, appVars>>
notApp == <<scorerVars, searchVars, forecastVars, solarVars, monitorVars, angleVars, factorVars>>

----------------------------------------------------------------------------
(* Program constants (static fields of RainbowCalculator), in model units. *)

Unit == 10000

RAINBOW_ANGLE_PRIMARY == 420
CRITICAL_SUN_ANGLE == 420
OPTIMAL_SUN_ANGLES == <<150, 250>>
RAINBOW_WIDTH == 20
MIN_HUMIDITY == 60
OPTIMAL_HUMIDITY == <<75, 90>>
MIN_VISIBILITY == 5000
OPTIMAL_VISIBILITY == 10000
MAX_WIND_SPEED == 100

----------------------------------------------------------------------------
(* Arithmetic helpers.                                                     *)

Max(a, b) == IF a >= b THEN a ELSE b
Min(a, b) == IF a <= b THEN a ELSE b
Abs(a) == IF a >= 0 THEN a ELSE -a

\* JavaScript's % : the remainder takes the sign of the dividend.
JSRem(a, n) == IF a >= 0 THEN a % n ELSE -((-a) % n)

\* sin(d degrees) * Unit, d = 0..91, as Math.sin/Math.cos give it (rounded).
SinTable ==
  << 0, 175, 349, 523, 698, 872, 1045, 1219, 1392, 1564,
     1736, 1908, 2079, 2250, 2419, 2588, 2756, 2924, 3090, 3256,
     3420, 3584, 3746, 3907, 4067, 4226, 4384, 4540, 4695, 4848,
     5000, 5150, 5299, 5446, 5592, 5736, 5878, 6018, 6157, 6293,
     6428, 6561, 6691, 6820, 6947, 7071, 7193, 7314, 7431, 7547,
     7660, 7771, 7880, 7986, 8090, 8192, 8290, 8387, 8480, 8572,
     8660, 8746, 8829, 8910, 8988, 9063, 9135, 9205, 9272, 9336,
     9397, 9455, 9511, 9563, 9613, 9659, 9703, 9744, 9781, 9816,
     9848, 9877, 9903, 9925, 9945, 9962, 9976, 9986, 9994, 9998,
     10000, 9998 >>

\* cos(zenith) with zenith = 90 - altitude, i.e. sin(altitude), altitude in
\* tenths of a degree within [0, 900]; linear between whole degrees.
CosZenith(alt) ==
  LET d == alt \div 10
      f == alt % 10
      s0 == SinTable[d + 1]
      s1 == SinTable[d + 2]
  IN  s0 + ((s1 - s0) * f) \div 10

----------------------------------------------------------------------------
(* The weather description and String.prototype.includes / toLowerCase.    *)

Descriptions ==
  { "yasno", "peremennaya oblachnost", "nebolshoy dozhd", "legkiy dozhd",
    "light rain", "tuman", "pasmurno", "Dozhd" }

toLowerCase(d) == IF d = "Dozhd" THEN "dozhd" ELSE d

\* description.includes(word), for the words the program searches for.
includes(d, word) ==
  CASE word = "dozhd"      -> d \in {"nebolshoy dozhd", "legkiy dozhd", "dozhd"}
    [] word = "rain"       -> d = "light rain"
    [] word = "legkiy"     -> d = "legkiy dozhd"
    [] word = "light"      -> d = "light rain"
    [] word = "yasno"      -> d = "yasno"
    [] word = "peremennaya" -> d = "peremennaya oblachnost"
    [] word = "tuman"      -> d = "tuman"
    [] OTHER               -> FALSE   \* "clear", "sunny", "solnechno", "partly", "mist"

----------------------------------------------------------------------------
(* calculateSunAngleFactor(sunAltitude): altitude in tenths of a degree.   *)

\* calculateSunAngleFactor with a falling ramp that ends at 0 at 42 degrees
calculateSunAngleFactor_fallToZero(sunAltitude) ==
  IF sunAltitude <= 0 THEN 0
  ELSE IF sunAltitude < 50 THEN 0
  ELSE IF sunAltitude > CRITICAL_SUN_ANGLE THEN 0
  ELSE IF sunAltitude >= OPTIMAL_SUN_ANGLES[1] /\ sunAltitude <= OPTIMAL_SUN_ANGLES[2]
       THEN Unit
  ELSE IF sunAltitude < OPTIMAL_SUN_ANGLES[1]
       THEN (3 * Unit) \div 10 + (7 * (Unit \div 10) * sunAltitude) \div OPTIMAL_SUN_ANGLES[1]
  ELSE LET range == CRITICAL_SUN_ANGLE - OPTIMAL_SUN_ANGLES[2]
           position == sunAltitude - OPTIMAL_SUN_ANGLES[2]
       IN  Unit - (Unit * position) \div range

calculateSunAngleFactor(sunAltitude) ==
  IF sunAltitude <= 0 THEN 0
  ELSE IF sunAltitude < 50 THEN 0
  ELSE IF sunAltitude > CRITICAL_SUN_ANGLE THEN 0
  ELSE IF sunAltitude >= OPTIMAL_SUN_ANGLES[1] /\ sunAltitude <= OPTIMAL_SUN_ANGLES[2]
       THEN Unit
  ELSE IF sunAltitude < OPTIMAL_SUN_ANGLES[1]
       THEN (3 * Unit) \div 10 + (7 * (Unit \div 10) * sunAltitude) \div OPTIMAL_SUN_ANGLES[1]
  ELSE LET range == CRITICAL_SUN_ANGLE - OPTIMAL_SUN_ANGLES[2]
           position == sunAltitude - OPTIMAL_SUN_ANGLES[2]
       IN  Unit - (8 * (Unit \div 10) * position) \div range

----------------------------------------------------------------------------
(* calculateTimeFactors(dateTime, solarEvents): the device's local hour,   *)
(* minutes and month (1..12) of the instant.                               *)

timeOfDayFactor(dateTime) ==
  LET t == dateTime.hour * 60 + dateTime.minutes    \* timeDecimal, in minutes
  IN  IF (t >= 6 * 60 /\ t <= 10 * 60) \/ (t >= 16 * 60 /\ t <= 20 * 60)
        THEN Unit
      ELSE IF (t >= 10 * 60 /\ t <= 12 * 60) \/ (t >= 14 * 60 /\ t <= 16 * 60)
        THEN (6 * Unit) \div 10
      ELSE IF (t >= 5 * 60 /\ t < 6 * 60) \/ (t > 20 * 60 /\ t <= 21 * 60)
        THEN (4 * Unit) \div 10
      ELSE Unit \div 10

seasonalFactor(dateTime) ==
  LET month == dateTime.month
  IN  IF month >= 4 /\ month <= 9 THEN Unit
      ELSE IF (month >= 3 /\ month <= 4) \/ (month >= 9 /\ month <= 10)
        THEN (9 * Unit) \div 10
      ELSE (8 * Unit) \div 10

calculateTimeFactors(dateTime) ==
  [ timeOfDayFactor |-> timeOfDayFactor(dateTime),
    seasonalFactor  |-> seasonalFactor(dateTime),
    currentHour     |-> dateTime.hour ]

----------------------------------------------------------------------------
(* calculateWeatherFactors(weather).  A missing optional number is 0 in    *)
(* the model: `weather.visibility || 10000`, `weather.uvi || estimate`     *)
(* treat 0 and undefined alike.  timeSinceRain is in minutes.              *)

\* recentRainFactor whose 4-8 hour band keeps the 2-4 hour value
recentRainFactor_lateBand(weather) ==
  LET recent == weather.recentRain
  IN  IF ~recent.present THEN 0
      ELSE IF recent.isOptimal THEN Unit
      ELSE IF recent.hasRecentRain /\ recent.timeSinceRain < 2 * 60 THEN (9 * Unit) \div 10
      ELSE IF recent.hasRecentRain /\ recent.timeSinceRain < 8 * 60 THEN (7 * Unit) \div 10
      ELSE IF recent.hasRecentRain THEN (3 * Unit) \div 10
      ELSE 0

recentRainFactor(weather) ==
  LET recent == weather.recentRain
  IN  IF ~recent.present THEN 0
      ELSE IF recent.isOptimal THEN Unit
      ELSE IF recent.hasRecentRain /\ recent.timeSinceRain < 2 * 60 THEN (9 * Unit) \div 10
      ELSE IF recent.hasRecentRain /\ recent.timeSinceRain < 4 * 60 THEN (7 * Unit) \div 10
      ELSE IF recent.hasRecentRain /\ recent.timeSinceRain < 8 * 60 THEN (5 * Unit) \div 10
      ELSE IF recent.hasRecentRain THEN (3 * Unit) \div 10
      ELSE 0

sunlightFactor(weather) ==
  LET description == toLowerCase(weather.description)
  IN  IF includes(description, "yasno") \/ includes(description, "clear")
         \/ includes(description, "solnechno") \/ includes(description, "sunny")
        THEN Unit
      ELSE IF includes(description, "peremennaya") \/ includes(description, "partly")
        THEN (8 * Unit) \div 10
      ELSE IF weather.clouds < 50 THEN (7 * Unit) \div 10
      ELSE IF weather.clouds < 80 THEN (4 * Unit) \div 10
      ELSE Unit \div 10

rainFactor(weather) ==
  LET description == toLowerCase(weather.description)
  IN  IF includes(description, "dozhd") \/ includes(description, "rain")
        THEN IF includes(description, "legkiy") \/ includes(description, "light")
               THEN (3 * Unit) \div 10
               ELSE Unit \div 10
      ELSE IF includes(description, "tuman") \/ includes(description, "mist")
        THEN (6 * Unit) \div 10
      ELSE IF weather.humidity > 70 THEN (6 * Unit) \div 10
      ELSE IF weather.humidity > 50 THEN (4 * Unit) \div 10
      ELSE (2 * Unit) \div 10

humidityFactor(weather) ==
  LET humidity == weather.humidity
  IN  IF humidity >= OPTIMAL_HUMIDITY[1] /\ humidity <= OPTIMAL_HUMIDITY[2] THEN Unit
      ELSE IF humidity >= MIN_HUMIDITY
        THEN Unit \div 2 + ((Unit \div 2) * (humidity - MIN_HUMIDITY))
                              \div (OPTIMAL_HUMIDITY[1] - MIN_HUMIDITY)
      ELSE 0

cloudFactor(weather) ==
  LET clouds == weather.clouds
  IN  IF clouds >= 20 /\ clouds <= 70 THEN Unit
      ELSE IF clouds < 20 THEN (3 * Unit) \div 10
      ELSE IF clouds <= 85 THEN (6 * Unit) \div 10
      ELSE Unit \div 10

visibilityFactor(weather) ==
  LET visibility == IF weather.visibility = 0 THEN 10000 ELSE weather.visibility
  IN  IF visibility >= OPTIMAL_VISIBILITY THEN Unit
      ELSE IF visibility >= MIN_VISIBILITY
        THEN (visibility * Unit) \div OPTIMAL_VISIBILITY
      ELSE (2 * Unit) \div 10

\* wind speed in tenths of a metre per second; an absent wind object is 0
windFactor(weather) ==
  LET windSpeed == weather.wind
  IN  IF windSpeed <= 30 THEN Unit
      ELSE IF windSpeed <= MAX_WIND_SPEED
        THEN Unit - (6 * (Unit \div 10) * (windSpeed - 30)) \div (MAX_WIND_SPEED - 30)
      ELSE (2 * Unit) \div 10

temperatureFactor(weather) ==
  LET temperature == weather.temp
  IN  IF temperature >= 10 /\ temperature <= 25 THEN Unit
      ELSE IF temperature >= 0 /\ temperature < 10 THEN (7 * Unit) \div 10
      ELSE IF temperature > 25 /\ temperature <= 35 THEN (8 * Unit) \div 10
      ELSE (5 * Unit) \div 10

calculateWeatherFactors(weather) ==
  [ rainFactor        |-> rainFactor(weather),
    humidityFactor    |-> humidityFactor(weather),
    cloudFactor       |-> cloudFactor(weather),
    visibilityFactor  |-> visibilityFactor(weather),
    windFactor        |-> windFactor(weather),
    temperatureFactor |-> temperatureFactor(weather),
    recentRainFactor  |-> recentRainFactor(weather),
    sunlightFactor    |-> sunlightFactor(weather) ]

----------------------------------------------------------------------------
(* estimateUVIndex and calculateAtmosphericFactors; latitude in degrees,   *)
(* the UV index in units of 1/Unit.                                        *)

estimateUVIndex(weather, latitude) ==
  LET cloudiness == Max(0, Min(100, weather.clouds))
      baseUV == Max(0, 10 * Unit - (Abs(latitude) * Unit) \div 9)
  IN  (baseUV * (100 - cloudiness)) \div 100

calculateAtmosphericFactors(weather, latitude) ==
  LET uvIndex == IF weather.uvi # 0 THEN weather.uvi
                 ELSE estimateUVIndex(weather, latitude)
  IN  [ lightScatteringFactor |-> Min(Unit, uvIndex \div 5) ]

----------------------------------------------------------------------------
(* calculateGeometricFactors(sunPosition, weather).                        *)

\* airmass = 1 / cos(zenith); at altitude 0 the double cos(pi/2) is 6e-17,
\* so the airmass is huge but finite.
airmass(altitude) ==
  LET c == CosZenith(altitude)
  IN  IF c = 0 THEN Unit * Unit ELSE (Unit * Unit) \div c

calculateGeometricFactors(sunPosition, weather) ==
  LET am == airmass(sunPosition.altitude)
      humidity == weather.humidity
      temperature == weather.temp
  IN  [ lightScatteringFactor |-> Max((3 * Unit) \div 10, Unit - (am - Unit) \div 10),
        dropletDistributionFactor |->
          IF humidity > 70 /\ temperature > 5 /\ temperature < 30
            THEN (8 * Unit) \div 10 + ((2 * (Unit \div 10)) * (humidity - 70)) \div 30
            ELSE (5 * Unit) \div 10 ]

----------------------------------------------------------------------------
(* calculateBaseProbability: the weights are in thousandths; the result is *)
(* in thousandths of a percent.                                            *)

\* the weights with a sunlight weight above the sun-angle weight
baseWeights_sunlightFirst ==
  [ recentRain |-> 400, sunAngle |-> 300, sunlight |-> 350, cloud |-> 80,
    visibility |-> 40, humidity |-> 20, rain |-> 5, lightScattering |-> 5 ]

\* the weights of the weighted sum, in thousandths
baseWeights ==
  [ recentRain |-> 400, sunAngle |-> 300, sunlight |-> 150, cloud |-> 80,
    visibility |-> 40, humidity |-> 20, rain |-> 5, lightScattering |-> 5 ]

calculateBaseProbability(sunAngleFactor, weatherFactors, atmosphericFactors) ==
  LET weightedSum ==
          weatherFactors.recentRainFactor * baseWeights.recentRain
        + sunAngleFactor * baseWeights.sunAngle
        + weatherFactors.sunlightFactor * baseWeights.sunlight
        + weatherFactors.cloudFactor * baseWeights.cloud
        + weatherFactors.visibilityFactor * baseWeights.visibility
        + weatherFactors.humidityFactor * baseWeights.humidity
        + weatherFactors.rainFactor * baseWeights.rain
        + atmosphericFactors.lightScatteringFactor * baseWeights.lightScattering
  IN  weightedSum \div 100

----------------------------------------------------------------------------
(* applyBonusesAndPenalties(probability, weather, sunPosition, timeFactors)*)

\* a variant of the night check that starts at 23
isNightHour_from23(hour) == hour >= 23 \/ hour <= 4

\* hour >= 22 || hour <= 4
isNightHour(hour) == hour >= 22 \/ hour <= 4

\* a variant of the rain bonus that is given to a high sun instead of a low one
rainBonusApplies_highSun(weather, sunPosition) ==
  /\ includes(weather.description, "dozhd")
  /\ sunPosition.altitude > 300

\* weather.weather[0].description.includes('dozhd'), on the text as given
\* (not lower-cased), with 5 < altitude < 30
rainBonusApplies(weather, sunPosition) ==
  /\ includes(weather.description, "dozhd")
  /\ sunPosition.altitude > 50
  /\ sunPosition.altitude < 300

\* a variant of the low-sun gate with the threshold at 4 degrees
sunTooLow_below4(sunPosition) == sunPosition.altitude < 40

\* sunPosition.altitude < 5
sunTooLow(sunPosition) == sunPosition.altitude < 50

applyBonusesAndPenalties(probability, weather, sunPosition, timeFactors) ==
  IF sunPosition.altitude <= 0 THEN 0
  ELSE IF sunTooLow(sunPosition) THEN 0
  ELSE IF isNightHour(timeFactors.currentHour) THEN 0
  ELSE
    LET p1 == IF rainBonusApplies(weather, sunPosition)
                THEN (probability * 12) \div 10 ELSE probability
        p2 == IF timeFactors.currentHour >= 17 /\ timeFactors.currentHour <= 19
                THEN (p1 * 11) \div 10 ELSE p1
        p3 == IF weather.humidity < 50 THEN (p2 * 5) \div 10 ELSE p2
        p4 == IF weather.clouds > 90 THEN (p3 * 3) \div 10 ELSE p3
    IN  p4

\* a variant of the normalisation without the upper clamp
normalize_noUpperClamp(finalProbability) == Max(0, finalProbability)

\* Math.max(0, Math.min(100, finalProbability || 0)), in thousandths of a percent
normalize(finalProbability) == Max(0, Min(100 * 1000, finalProbability))

\* Math.round(finalProbability * 10) / 10, as a count of tenths of a percent
roundToTenth(finalProbability) == (finalProbability + 50) \div 100

----------------------------------------------------------------------------
(* calculateRainbowDirection(sunPosition) and calculateRainbowQuality.     *)

Null == [isNull |-> TRUE]

\* a variant of the range start without the + 360 before the remainder
rangeStart_noWrap(antiSolarAzimuth) ==
  JSRem(antiSolarAzimuth - RAINBOW_WIDTH \div 2, 3600)

rangeStart(antiSolarAzimuth) ==
  JSRem(antiSolarAzimuth - RAINBOW_WIDTH \div 2 + 3600, 3600)

calculateRainbowDirection(sunPosition) ==
  LET antiSolarAzimuth == JSRem(sunPosition.azimuth + 1800, 3600)
  IN  [ isNull    |-> FALSE,
        center    |-> antiSolarAzimuth,
        range     |-> [ start |-> rangeStart(antiSolarAzimuth),
                        end   |-> JSRem(antiSolarAzimuth + RAINBOW_WIDTH \div 2, 3600) ],
        elevation |-> RAINBOW_ANGLE_PRIMARY - sunPosition.altitude,
        type      |-> "primary" ]

\* probability in thousandths of a percent (the value before rounding)
calculateRainbowQuality(probability) ==
  IF probability < 20 * 1000 THEN "none"
  ELSE IF probability < 40 * 1000 THEN "very_weak"
  ELSE IF probability < 60 * 1000 THEN "weak"
  ELSE IF probability < 75 * 1000 THEN "moderate"
  ELSE IF probability < 90 * 1000 THEN "good"
  ELSE "excellent"

----------------------------------------------------------------------------
(* analyzeConditions and generateRecommendations: the lists of messages,   *)
(* each message named by a key.                                            *)

Cond(type, message) == [type |-> type, message |-> message]

analyzeConditions(sunPosition, weather, timeFactors) ==
     (IF sunPosition.altitude < 0
        THEN << Cond("critical", "sun_below_horizon") >>
      ELSE IF sunPosition.altitude > CRITICAL_SUN_ANGLE
        THEN << Cond("critical", "sun_too_high") >>
      ELSE IF sunPosition.altitude >= OPTIMAL_SUN_ANGLES[1]
              /\ sunPosition.altitude <= OPTIMAL_SUN_ANGLES[2]
        THEN << Cond("positive", "ideal_sun_angle") >>
      ELSE << >>)
  \o (IF includes(weather.description, "dozhd")
        THEN << Cond("positive", "precipitation_present") >> ELSE << >>)
  \o (IF weather.humidity > 80
        THEN << Cond("positive", "high_humidity") >> ELSE << >>)
  \o (IF weather.clouds > 20 /\ weather.clouds < 70
        THEN << Cond("positive", "partly_cloudy") >> ELSE << >>)
  \o (IF timeFactors.timeOfDayFactor = Unit
        THEN << Cond("positive", "optimal_time_of_day") >> ELSE << >>)

\* probability in thousandths of a percent (the value before rounding)
generateRecommendations(probability, sunPosition, weather) ==
     (IF probability > 80 * 1000
        THEN << "super_conditions", "look_towards_antisolar" >>
             \o (IF weather.recentRain.present /\ weather.recentRain.isOptimal
                   THEN << "recent_rain_plus_sun" >> ELSE << >>)
      ELSE IF probability > 60 * 1000
        THEN << "excellent_conditions", "look_towards_antisolar" >>
      ELSE IF probability > 40 * 1000 THEN << "moderate_conditions" >>
      ELSE IF probability > 20 * 1000 THEN << "weak_conditions" >>
      ELSE << "unfavourable_conditions" >>)
  \o (IF sunPosition.altitude > CRITICAL_SUN_ANGLE /\ sunPosition.sunsetKnown
        THEN << "try_after_sunset" >> ELSE << >>)
  \o (IF weather.recentRain.present
        THEN IF ~weather.recentRain.hasRecentRain THEN << "wait_for_rain" >>
             ELSE IF weather.recentRain.timeSinceRain > 2 * 60
               THEN << "rain_was_long_ago" >> ELSE << >>
        ELSE << >>)
  \o (IF weather.clouds > 80 THEN << "wait_for_sun" >> ELSE << >>)

----------------------------------------------------------------------------
(* calculateRainbowProbability(conditions).  sunPosition is the value      *)
(* SunCalculator.calculateSunPosition returned for the conditions.         *)

\* the catch-all result: any exception inside the function ends here
ErrorResult ==
  [ isNull          |-> FALSE,
    probability     |-> 0,
    direction       |-> Null,
    quality         |-> "none",
    sunPosition     |-> Null,
    factors         |-> "calculation_error",
    conditions      |-> << Cond("critical", "calculation_error") >>,
    recommendations |-> << "try_refreshing" >> ]

\* the early return when the sun is not above the horizon
BelowHorizonResult(sunPosition) ==
  [ isNull          |-> FALSE,
    probability     |-> 0,
    direction       |-> Null,
    quality         |-> "none",
    sunPosition     |-> sunPosition,
    factors         |-> "sun_below_horizon",
    conditions      |-> << Cond("critical", "sun_below_horizon_rainbow_impossible") >>,
    recommendations |-> << "wait_for_sunrise", "rainbow_only_by_day" >> ]

\* !conditions || typeof conditions !== 'object'
conditionsMissing(c) == ~c.isObject

\* !latitude || !longitude || !weather
dataMissing(c) ==
  c.latitude = 0 \/ c.longitude = 0 \/ c.weather.shape = "undefined"

\* typeof checks and the coordinate ranges
coordinatesInvalid(c) ==
  \/ ~c.numeric
  \/ c.latitude < -90 \/ c.latitude > 90
  \/ c.longitude < -180 \/ c.longitude > 180

\* !weather.main || !weather.weather || !Array.isArray(...) || length === 0
weatherStructureInvalid(weather) ==
  weather.shape \in {"noMain", "noWeatherArray", "weatherNotArray", "emptyWeatherArray"}

\* a variant of the horizon gate that lets altitude 0 through
sunBelowHorizon_strict(sunPosition) == ~sunPosition.nan /\ sunPosition.altitude < 0

\* sunPosition.altitude <= 0 (false for NaN)
sunBelowHorizon(sunPosition) == ~sunPosition.nan /\ sunPosition.altitude <= 0

\* The factor stage throws: weather.weather[0].description.toLowerCase() or
\* weather.clouds.all on a missing member, or validateFactors rejects a NaN
\* sun-angle factor.
factorStageFails(weather, sunPosition) ==
  \/ weather.shape \in {"noClouds", "noDescription"}
  \/ sunPosition.nan

\* steps 3-6: base probability, modifiers, bonuses, normalisation; the value
\* is in thousandths of a percent
finalProbability(c, sunPosition) ==
  LET weather == c.weather
      sunAngleFactor == calculateSunAngleFactor(sunPosition.altitude)
      timeFactors == calculateTimeFactors(c.dateTime)
      weatherFactors == calculateWeatherFactors(weather)
      atmosphericFactors == calculateAtmosphericFactors(weather, c.latitude)
      geometricFactors == calculateGeometricFactors(sunPosition, weather)
      baseProbability ==
        calculateBaseProbability(sunAngleFactor, weatherFactors, atmosphericFactors)
      timeModifier ==
        (timeFactors.timeOfDayFactor * timeFactors.seasonalFactor) \div Unit
      environmentModifier ==
        (geometricFactors.lightScatteringFactor
           * geometricFactors.dropletDistributionFactor) \div Unit
      raw == (((baseProbability * timeModifier) \div Unit) * environmentModifier) \div Unit
  IN  normalize(applyBonusesAndPenalties(raw, weather, sunPosition, timeFactors))

\* How the call ends for its caller.  The whole body is inside try { ... }
\* catch (error) { return <the catch-all result> }, so no exception leaves it.
outcome(c, sunPosition) == "returned"

calculateRainbowProbability(c, sunPosition) ==
  IF conditionsMissing(c) THEN ErrorResult
  ELSE IF dataMissing(c) THEN ErrorResult
  ELSE IF coordinatesInvalid(c) THEN ErrorResult
  ELSE IF weatherStructureInvalid(c.weather) THEN ErrorResult
  ELSE IF sunBelowHorizon(sunPosition) THEN BelowHorizonResult(sunPosition)
  ELSE IF factorStageFails(c.weather, sunPosition) THEN ErrorResult
  ELSE
    LET final == finalProbability(c, sunPosition)
        timeFactors == calculateTimeFactors(c.dateTime)
    IN  [ isNull          |-> FALSE,
          probability     |-> roundToTenth(final),
          direction       |-> calculateRainbowDirection(sunPosition),
          quality         |-> calculateRainbowQuality(final),
          sunPosition     |-> sunPosition,
          factors         |-> "computed",
          conditions      |-> analyzeConditions(sunPosition, c.weather, timeFactors),
          recommendations |-> generateRecommendations(final, sunPosition, c.weather) ]

----------------------------------------------------------------------------
(* The inputs of a call.                                                   *)

NoSignal == [present |-> FALSE, isOptimal |-> FALSE, hasRecentRain |-> FALSE,
             timeSinceRain |-> 0]
Signal(has, minutes) ==
  [present |-> TRUE, isOptimal |-> has /\ minutes < 60, hasRecentRain |-> has,
   timeSinceRain |-> minutes]

\* description and cloud cover (percent)
Skies ==
  { <<"yasno", 10>>, <<"yasno", 45>>, <<"peremennaya oblachnost", 45>>,
    <<"nebolshoy dozhd", 75>>, <<"legkiy dozhd", 45>>, <<"light rain", 85>>,
    <<"tuman", 85>>, <<"pasmurno", 95>>, <<"Dozhd", 45>> }

\* humidity (percent), recent-rain signal, visibility (m, 0 = absent),
\* temperature (C), UV index (1/Unit, 0 = absent)
Airs ==
  { <<40, NoSignal, 0, 20, 0>>,
    <<55, Signal(FALSE, 0), 7500, 35, 0>>,
    <<65, Signal(TRUE, 360), 10000, 20, 0>>,
    <<72, Signal(TRUE, 180), 3000, 20, 0>>,
    <<80, Signal(TRUE, 90), 0, 20, 6 * Unit>>,
    <<90, Signal(TRUE, 30), 12000, 20, 0>>,
    <<100, Signal(TRUE, 15), 10000, 20, 6 * Unit>>,
    <<100, Signal(TRUE, 600), 10000, 3, 0>> }

Weather(shape, sky, air) ==
  [ shape       |-> shape,
    description |-> sky[1],
    clouds      |-> sky[2],
    humidity    |-> air[1],
    recentRain  |-> air[2],
    visibility  |-> air[3],
    temp        |-> air[4],
    uvi         |-> air[5],
    wind        |-> 0 ]

\* well-formed snapshots
ValidWeathers == { Weather("ok", sky, air) : sky \in Skies, air \in Airs }

\* snapshots that pass the structure check and fail later
LateInvalidWeathers ==
  { Weather(shape, <<"yasno", 45>>, <<90, Signal(TRUE, 30), 12000, 20, 0>>) :
      shape \in {"noClouds", "noDescription"} }

\* snapshots the structure check rejects, and no snapshot at all
EarlyInvalidWeathers ==
  { Weather(shape, <<"yasno", 45>>, <<90, Signal(TRUE, 30), 12000, 20, 0>>) :
      shape \in {"undefined", "noMain", "noWeatherArray", "weatherNotArray",
                 "emptyWeatherArray"} }

Weathers == ValidWeathers \cup LateInvalidWeathers \cup EarlyInvalidWeathers

DateTime(hour, minutes, month) ==
  [valid |-> TRUE, hour |-> hour, minutes |-> minutes, month |-> month]

\* new Date(NaN): every getter returns NaN; the fields are never compared
InvalidDate == [valid |-> FALSE, hour |-> 0, minutes |-> 0, month |-> 1]

Times ==
       { DateTime(h, 0, mo) : h \in 0..23, mo \in {1, 6} }
  \cup { DateTime(h, 30, 6) : h \in {5, 10, 12, 20, 21} }
  \cup { DateTime(h, 0, mo) : h \in {8, 13}, mo \in {3, 4, 9, 10, 12} }

SunPosition(altitude, azimuth) ==
  [nan |-> FALSE, altitude |-> altitude, azimuth |-> azimuth, sunsetKnown |-> TRUE]

\* the sun position of an invalid instant: altitude and azimuth are NaN
NaNSun == [nan |-> TRUE, altitude |-> 0, azimuth |-> 0, sunsetKnown |-> TRUE]

Altitudes ==
  { -300, -1, 0, 1, 49, 50, 51, 100, 149, 150, 200, 250, 251, 299, 300, 301,
    360, 420, 421, 600, 900 }

Azimuths == { 0, 10, 1790, 1800, 1810, 3590, 3600 }

SunPositions == { SunPosition(alt, 1350) : alt \in Altitudes }

\* other azimuths, and a polar day (no sunset)
OtherSunPositions ==
       { SunPosition(alt, az) : alt \in {-1, 200, 421}, az \in Azimuths }
  \cup { [nan |-> FALSE, altitude |-> 450, azimuth |-> 1800, sunsetKnown |-> FALSE] }

Conditions(lat, lon, weather, dateTime) ==
  [ isObject |-> TRUE, numeric |-> TRUE, latitude |-> lat, longitude |-> lon,
    weather |-> weather, dateTime |-> dateTime ]

\* calls with usable coordinates
MainCalls ==
  { << Conditions(56, 38, w, t), s >> :
      w \in ValidWeathers \cup LateInvalidWeathers, t \in Times, s \in SunPositions }

\* other places, rejected coordinates, rejected snapshots, invalid instants
EdgeCalls ==
       { << Conditions(loc[1], loc[2], w, DateTime(h, 0, 6)), SunPosition(alt, 1350) >> :
           loc \in { <<10, -120>>, <<-90, -180>>, <<90, 180>>, <<0, 38>>, <<56, 0>>,
                     <<91, 38>>, <<-91, 38>>, <<56, 181>>, <<56, -181>> },
           w \in { Weather("ok", <<"legkiy dozhd", 45>>, <<100, Signal(TRUE, 15), 10000, 20, 0>>) },
           h \in {3, 8, 18}, alt \in {-1, 30, 200, 500} }
  \cup { << Conditions(56, 38, w, DateTime(h, 0, 6)), SunPosition(alt, 1350) >> :
           w \in EarlyInvalidWeathers, h \in {3, 8, 18}, alt \in {-1, 30, 200, 500} }
  \cup { << [Conditions(56, 38, w, DateTime(8, 0, 6)) EXCEPT !.numeric = FALSE],
            SunPosition(200, 1350) >> : w \in ValidWeathers }
  \cup { << [Conditions(56, 38, w, DateTime(8, 0, 6)) EXCEPT !.isObject = FALSE],
            SunPosition(200, 1350) >> : w \in ValidWeathers }
  \cup { << Conditions(56, 38, w, InvalidDate), NaNSun >> : w \in Weathers }
  \cup { << Conditions(56, 38, w, DateTime(h, 0, 6)), s >> :
           w \in { Weather(shape, sky, <<90, Signal(TRUE, 30), 12000, 20, 0>>) :
                     shape \in {"ok", "noClouds"}, sky \in Skies },
           h \in {3, 8, 18}, s \in OtherSunPositions }

NoResult == [isNull |-> TRUE]

----------------------------------------------------------------------------
(* Logger: the static array Logger.logs that every Logger call writes.     *)
(* An entry is modelled by its level and a key for its message.            *)

maxLogs == 100

LogEntry(level, message) == [level |-> level, message |-> message]

\* Logger.log: unshift the entry, pop the oldest one beyond maxLogs
log(entries, level, message) ==
  LET unshifted == << LogEntry(level, message) >> \o entries
  IN  IF Len(unshifted) > maxLogs THEN SubSeq(unshifted, 1, Len(unshifted) - 1)
      ELSE unshifted

\* the Logger calls of a sequence, first call first
RECURSIVE logAll(_, _)
logAll(entries, calls) ==
  IF calls = << >> THEN entries
  ELSE logAll(log(entries, calls[1][1], calls[1][2]), Tail(calls))

\* the Logger calls calculateRainbowProbability makes, in order
scoringLog(c, sunPosition) ==
  LET start == << <<"INFO", "start">> >>
      input == << <<"DEBUG", "input">>, <<"DEBUG", "weather">> >>
      caught == << <<"ERROR", "calculateRainbowProbability">> >>
  IN  IF conditionsMissing(c) THEN start \o << <<"ERROR", "no_conditions">> >> \o caught
      ELSE IF dataMissing(c) THEN start \o input \o << <<"ERROR", "not_enough_data">> >> \o caught
      ELSE IF coordinatesInvalid(c) THEN start \o input \o << <<"ERROR", "coordinates">> >> \o caught
      ELSE IF weatherStructureInvalid(c.weather)
        THEN start \o input \o << <<"ERROR", "weather_structure">> >> \o caught
      ELSE IF sunBelowHorizon(sunPosition) THEN start \o input
      ELSE IF c.weather.shape \in {"noClouds", "noDescription"}
        THEN start \o input \o << <<"ERROR", "factors">> >> \o caught
      ELSE IF sunPosition.nan
        THEN start \o input \o << <<"ERROR", "sunAngleFactor">>, <<"ERROR", "factors">> >> \o caught
      ELSE start \o input \o << <<"SUCCESS", "done">> >>

\* a log filled by earlier calls
EarlierLogs == [i \in 1..maxLogs |-> LogEntry("INFO", "earlier")]

\* the other components at rest
SearchIdle ==
  /\ calculated = << >>
  /\ fetchOk = TRUE
  /\ rainbowForecasts = << >>
  /\ nextOptimal = Null
  /\ spc = "idle"

ScorerIdle ==
  /\ conditions = Null
  /\ sun = Null
  /\ pc = "idle"
  /\ result = NoResult
  /\ logs = << >>

ForecastIdle ==
  /\ hourly = << >>
  /\ now = 0
  /\ sunTimes = Null
  /\ forecast = << >>
  /\ fpc = "idle"

SolarIdle ==
  /\ solarInput = Null
  /\ solarEvents = Null
  /\ epc = "idle"

MonitorIdle ==
  /\ apiCallCount = 0
  /\ issued = 0
  /\ monitoredLocations = << >>
  /\ users = << >>
  /\ runs = << >>
  /\ lastResponse = Null

AngleIdle ==
  /\ altitudeArg = 0
  /\ angleFactor = 0
  /\ apc = "idle"

FactorIdle ==
  /\ factorInput = Null
  /\ factorOutput = Null
  /\ wpc = "idle"

AppIdle ==
  /\ isMounted = TRUE
  /\ updateInProgress = FALSE
  /\ hasLocation = FALSE
  /\ permissionsGranted = FALSE
  /\ loading = FALSE
  /\ refreshing = FALSE
  /\ updates = << >>

Init ==
  /\ \E call \in MainCalls \cup EdgeCalls :
       /\ conditions = call[1]
       /\ sun = call[2]
       /\ logs \in (IF call \in EdgeCalls THEN {<< >>, EarlierLogs} ELSE {<< >>})
  /\ pc = "ready"
  /\ result = NoResult
  /\ SearchIdle
  /\ ForecastIdle
  /\ SolarIdle
  /\ MonitorIdle
  /\ AngleIdle
  /\ FactorIdle
  /\ AppIdle

\* one call of RainbowCalculator.calculateRainbowProbability(conditions)
Score ==
  /\ pc = "ready"
  /\ result' = calculateRainbowProbability(conditions, sun)
  /\ logs' = logAll(logs, scoringLog(conditions, sun))
  /\ pc' = outcome(conditions, sun)
  /\ UNCHANGED <<conditions, sun>>
  /\ UNCHANGED notScorer

Next == Score

Spec == Init /\ [][Next]_vars

----------------------------------------------------------------------------
(* Properties of the scorer.                                               *)

\* The call passed the input checks and reached the sun calculation: the
\* argument is an object, the coordinates are non-zero numbers in range, and
\* the snapshot has main and a non-empty weather array.
AcceptedCall ==
  /\ conditions.isObject
  /\ conditions.numeric
  /\ conditions.latitude \in (-90..90) \ {0}
  /\ conditions.longitude \in (-180..180) \ {0}
  /\ conditions.weather.shape \in {"ok", "noClouds", "noDescription"}

Returned == pc = "returned"

\* a snapshot that favours a rainbow: rain in the last hour, humid, half-clouded
IdealWeather ==
  /\ conditions.weather.shape = "ok"
  /\ conditions.weather.recentRain.isOptimal
  /\ conditions.weather.humidity >= 80
  /\ conditions.weather.clouds = 45

HasCondition(type, message) ==
  \E i \in DOMAIN result.conditions :
    result.conditions[i] = Cond(type, message)

\* C1: whenever the computed sun altitude is <= 0, the returned assessment
\* has probability 0, quality 'none', direction null, and its conditions
\* contain a critical "sun below horizon" entry, whatever the weather, the
\* hour and the month.
C1_SunBelowHorizon ==
  (Returned /\ AcceptedCall /\ ~sun.nan /\ sun.altitude <= 0)
    => /\ result.probability = 0
       /\ result.quality = "none"
       /\ result.direction = Null
       /\ HasCondition("critical", "sun_below_horizon_rainbow_impossible")

\* C1 witness: the sun exactly on the horizon, ideal weather, 8 o'clock in June
C1_Witness ==
  /\ Returned /\ AcceptedCall /\ IdealWeather
  /\ ~sun.nan /\ sun.altitude = 0
  /\ conditions.dateTime = DateTime(8, 0, 6)
  /\ result.probability = 0 /\ result.direction = Null

\* C2: the returned probability is a whole number of tenths between 0 and
\* 100.0 for every input, valid or not, whatever bonuses were applied.
C2_ProbabilityRange ==
  Returned => result.probability \in 0..1000

\* C2 witness: a call whose score exceeds 100 before normalisation (rain
\* bonus and golden-hour bonus on a near-perfect base) returns exactly 100.0
C2_Witness ==
  /\ Returned /\ AcceptedCall
  /\ rainBonusApplies(conditions.weather, sun)
  /\ conditions.dateTime.hour = 18
  /\ result.probability = 1000

\* the tier the documented thresholds give to a probability in tenths
DocumentedTier(tenths) ==
  IF tenths < 200 THEN "none"
  ELSE IF tenths < 400 THEN "very_weak"
  ELSE IF tenths < 600 THEN "weak"
  ELSE IF tenths < 750 THEN "moderate"
  ELSE IF tenths < 900 THEN "good"
  ELSE "excellent"

\* C3: the returned quality is the tier that the documented thresholds
\* (< 20 none, < 40 very_weak, < 60 weak, < 75 moderate, < 90 good, else
\* excellent) assign to the returned one-decimal probability.
C3_QualityMatchesReturnedProbability ==
  Returned => result.quality = DocumentedTier(result.probability)

\* C4: when the local hour is one of 22, 23, 0, 1, 2, 3, 4 the returned
\* probability is exactly 0, for every location, weather and month.
C4_NightLockout ==
  (Returned /\ conditions.dateTime.valid
     /\ conditions.dateTime.hour \in {22, 23, 0, 1, 2, 3, 4})
    => result.probability = 0

\* C4 witness: 22 o'clock with the sun at 20 degrees, rain within the hour
\* and rain falling: the call is scored (a direction is returned), yet 0
C4_Witness ==
  /\ Returned /\ AcceptedCall
  /\ conditions.dateTime.hour = 22
  /\ sun.altitude = 200
  /\ conditions.weather.shape = "ok"
  /\ conditions.weather.recentRain.isOptimal
  /\ rainBonusApplies(conditions.weather, sun)
  /\ result.direction # Null
  /\ result.probability = 0

\* C5: a sun altitude above 42 degrees yields a returned probability of
\* exactly 0, for every weather, hour and month.
C5_HighSunGivesZero ==
  (Returned /\ ~sun.nan /\ sun.altitude > 420) => result.probability = 0

\* C6: a sun altitude strictly between 0 and 5 degrees yields a returned
\* probability of exactly 0, for every weather, hour and month.
C6_LowSunGate ==
  (Returned /\ ~sun.nan /\ sun.altitude > 0 /\ sun.altitude < 50)
    => result.probability = 0

\* C6 witness: the sun at 4.9 degrees at 18 o'clock in ideal weather: the
\* call is scored (a direction is returned), yet the probability is 0
C6_Witness ==
  /\ Returned /\ AcceptedCall /\ IdealWeather
  /\ sun.altitude = 49
  /\ conditions.dateTime = DateTime(18, 0, 6)
  /\ result.direction # Null
  /\ result.probability = 0

\* the probability the same call returns with the sun at another altitude
ProbabilityAt(altitude) ==
  calculateRainbowProbability(conditions, [sun EXCEPT !.altitude = altitude]).probability

\* the altitude of the peak: 25 degrees, the upper end of the optimal band
PeakAltitude == OPTIMAL_SUN_ANGLES[2]

\* C7: for fixed weather, hour and month, the returned probability as a
\* function of the sun altitude over (0, 42] has a single peak inside
\* [15, 25] degrees: non-decreasing below the peak, non-increasing above it.
C7_SinglePeak ==
  (Returned /\ ~sun.nan /\ sun.altitude > 0 /\ sun.altitude <= 420)
    => /\ PeakAltitude \in 150..250
       /\ \A higher \in Altitudes :
            (higher > sun.altitude /\ higher <= 420)
              => /\ higher <= PeakAltitude => result.probability <= ProbabilityAt(higher)
                 /\ sun.altitude >= PeakAltitude => result.probability >= ProbabilityAt(higher)

\* C7 witness: a scored call with the sun at 10 degrees whose probability is
\* positive, strictly below the one at 25 degrees, and the one at 42 degrees
\* is strictly below the one at 25 degrees too
C7_Witness ==
  /\ Returned /\ AcceptedCall /\ IdealWeather
  /\ sun.altitude = 100
  /\ result.probability > 0
  /\ result.probability < ProbabilityAt(250)
  /\ ProbabilityAt(420) < ProbabilityAt(250)
  /\ ProbabilityAt(420) > 0

\* C8: for every sun azimuth in [0, 360], a returned direction has its
\* center at (azimuth + 180) mod 360 within [0, 360), its range start and end
\* at center - 1 and center + 1 degrees mod 360 (both within [0, 360)), and
\* its elevation at 42 minus the sun altitude.
C8_Direction ==
  (Returned /\ result.direction # Null /\ sun.azimuth \in 0..3600)
    => LET d == result.direction
       IN  /\ d.center \in 0..3599
           /\ (d.center + 7200 - (sun.azimuth + 1800)) % 3600 = 0
           /\ d.range.start \in 0..3599
           /\ (d.range.start + 7200 - (d.center - 10)) % 3600 = 0
           /\ d.range.end \in 0..3599
           /\ (d.range.end + 7200 - (d.center + 10)) % 3600 = 0
           /\ d.elevation + sun.altitude = 420

\* C8 witness: the sun due south (azimuth 180): the center is 0 and the
\* range start wraps to 359 degrees
C8_Witness ==
  /\ Returned /\ result.direction # Null
  /\ sun.azimuth = 1800
  /\ result.direction.center = 0
  /\ result.direction.range.start = 3590
  /\ result.direction.range.end = 10

\* C9: two calls with the same location and instant and different weather
\* snapshots return the same direction, whatever fields the snapshots have
\* or lack.
C9_DirectionIndependentOfWeather ==
  Returned =>
    \A other \in Weathers :
      calculateRainbowProbability([conditions EXCEPT !.weather = other], sun).direction
        = result.direction

\* C10: a call whose weather is missing or lacks main, a non-empty weather
\* array or clouds ends in an error thrown to the caller (InvalidWeatherData),
\* not in a returned assessment.
C10_InvalidWeatherIsAnError ==
  (pc # "ready"
     /\ conditions.isObject /\ conditions.numeric
     /\ conditions.latitude \in (-90..90) \ {0}
     /\ conditions.longitude \in (-180..180) \ {0}
     /\ conditions.weather.shape \in
          {"undefined", "noMain", "noWeatherArray", "emptyWeatherArray", "noClouds"})
    => pc = "thrown"

\* C11: the coordinates are rejected exactly when the latitude is outside
\* [-90, 90], the longitude is outside [-180, 180] or one of them is not a
\* number; every in-range pair, latitude 0 and longitude 0 included, is
\* scored normally (with a well-formed snapshot and a computed sun position
\* the call does not end in the catch-all result).
C11_CoordinatesRejectedExactlyOutOfRange ==
  (Returned /\ conditions.isObject /\ conditions.weather.shape = "ok" /\ ~sun.nan)
    => ( (result = ErrorResult)
           <=> \/ ~conditions.numeric
               \/ conditions.latitude < -90 \/ conditions.latitude > 90
               \/ conditions.longitude < -180 \/ conditions.longitude > 180 )

----------------------------------------------------------------------------
(* WeatherService.getRainbowForecast / getNextOptimalConditions: the search *)
(* for the next hour with a high rainbow probability.  The probability of   *)
(* an hour is the number RainbowCalculator.calculateRainbowProbability      *)
(* returned for it (RainbowResult.probability, "0-100%"), in units of      *)
(* 1/Unit of a percent.                                                     *)

\* getNextOptimalConditions asks for 48 hours
FORECAST_HOURS == 48

\* new Date(hourlyData.dt * 1000); hours are numbered from the first entry
Timestamp(i) == [isNull |-> FALSE, time |-> i]

\* the entry pushed for hour i
RainbowForecast(i, probability) ==
  [ timestamp   |-> Timestamp(i),
    probability |-> probability,
    isOptimal   |-> probability > 60 * Unit ]

\* the loop of getRainbowForecast over the first min(hours, length) entries
getRainbowForecast(probabilities, hours) ==
  [ i \in 1..Min(hours, Len(probabilities)) |-> RainbowForecast(i, probabilities[i]) ]

\* for (const forecast of rainbowForecasts) if (isOptimal) return timestamp
RECURSIVE firstOptimal(_, _)
firstOptimal(forecasts, i) ==
  IF i > Len(forecasts) THEN Null
  ELSE IF forecasts[i].isOptimal THEN forecasts[i].timestamp
  ELSE firstOptimal(forecasts, i + 1)

MaxForecastLen == 3

\* what the calculator can return for an hour
Probabilities == {0, 59 * Unit, 60 * Unit, 61 * Unit, 100 * Unit}

ProbabilitySeqs ==
  UNION { [1..n -> Probabilities] : n \in 0..MaxForecastLen }

SearchInit ==
  /\ calculated \in ProbabilitySeqs
  /\ fetchOk \in BOOLEAN
  /\ rainbowForecasts = << >>
  /\ nextOptimal = Null
  /\ spc = "ready"
  /\ ScorerIdle
  /\ ForecastIdle
  /\ SolarIdle
  /\ MonitorIdle
  /\ AngleIdle
  /\ FactorIdle
  /\ AppIdle

\* getNextOptimalConditions when the forecast is fetched
SearchForecast ==
  /\ spc = "ready"
  /\ fetchOk
  /\ rainbowForecasts' = getRainbowForecast(calculated, FORECAST_HOURS)
  /\ nextOptimal' = firstOptimal(rainbowForecasts', 1)
  /\ spc' = "done"
  /\ UNCHANGED <<calculated, fetchOk>>
  /\ UNCHANGED notSearch

\* getDetailedForecast rejects: getRainbowForecast rethrows, the catch of
\* getNextOptimalConditions returns null
SearchFails ==
  /\ spc = "ready"
  /\ ~fetchOk
  /\ nextOptimal' = Null
  /\ spc' = "done"
  /\ UNCHANGED <<calculated, fetchOk, rainbowForecasts>>
  /\ UNCHANGED notSearch

SearchNext == SearchForecast \/ SearchFails

SearchSpec == SearchInit /\ [][SearchNext]_vars

\* the hours whose probability is at or above the threshold 60
Qualifying == { i \in 1..Len(calculated) : calculated[i] >= 60 * Unit }

----------------------------------------------------------------------------
(* The mobile application's calculator (RainbowCalculator.ts) as            *)
(* WeatherService.getRainbowForecast calls it for each forecast hour.       *)
(* Sun angles in tenths of a degree, visibility in metres, factors in       *)
(* 1/Unit, the probability in 1/Unit of a percent.                          *)

\* text.includes(word) for the words RainbowCalculator.ts searches for
includesTS(text, word) ==
  CASE word = "Rain"         -> text = "Rain"
    [] word = "rain"         -> text = "light rain"
    [] word = "Mist"         -> text = "Mist"
    [] word = "Fog"          -> text = "Fog"
    [] word = "mist"         -> text = "mist"
    [] word = "fog"          -> text = "fog"
    [] word = "Thunderstorm" -> text = "Thunderstorm"
    [] OTHER                 -> FALSE

calculateSunAngleFactorTS(sunAngle) ==
  IF sunAngle < 0 THEN 0
  ELSE IF sunAngle > 420 THEN 0
  ELSE IF sunAngle >= 100 /\ sunAngle <= 350 THEN Unit
  ELSE IF sunAngle < 100 THEN Max(0, (sunAngle * Unit) \div 100)
  ELSE Max(0, ((420 - sunAngle) * Unit) \div 70)

calculateWaterDropletFactor(weather) ==
  LET humidityShare == Min(Unit, (weather.humidity * Unit) \div 80)
      fromHumidity == (humidityShare * 3) \div 10
      fromRain ==
        IF weather.precipitation > 0 THEN (8 * Unit) \div 10
        ELSE IF includesTS(weather.weatherMain, "Rain")
                  \/ includesTS(weather.weatherDescription, "rain")
          THEN (6 * Unit) \div 10
        ELSE 0
      fromMist ==
        IF \/ includesTS(weather.weatherMain, "Mist")
           \/ includesTS(weather.weatherMain, "Fog")
           \/ includesTS(weather.weatherDescription, "mist")
           \/ includesTS(weather.weatherDescription, "fog")
          THEN (7 * Unit) \div 10
        ELSE 0
      fromStorm ==
        IF includesTS(weather.weatherMain, "Thunderstorm") THEN (5 * Unit) \div 10 ELSE 0
  IN  Min(Unit, fromHumidity + fromRain + fromMist + fromStorm)

calculateLightFactor(weather, sunAngle) ==
  IF sunAngle <= 0 THEN 0
  ELSE
    LET cloudinessFactor == Max(0, ((100 - weather.cloudiness) * Unit) \div 100)
        adjustedCloudinessFactor ==
          IF weather.cloudiness >= 20 /\ weather.cloudiness <= 60
            THEN Min(Unit, cloudinessFactor + (2 * Unit) \div 10)
            ELSE cloudinessFactor
        visibilityInfluence == Min(Unit, (weather.visibility * Unit) \div 10000)
    IN  (adjustedCloudinessFactor * 7 + visibilityInfluence * 3) \div 10

calculateVisibilityFactor(weather) ==
  IF weather.visibility >= 10000 THEN Unit
  ELSE IF weather.visibility >= 5000 THEN (8 * Unit) \div 10
  ELSE IF weather.visibility >= 2000 THEN (5 * Unit) \div 10
  ELSE (2 * Unit) \div 10

\* calculateTimingFactor(sunAngle, latitude, longitude): reads the wall clock
\* and today's sunrise and sunset; an Invalid Date (polar day or night)
\* compares false with everything
calculateTimingFactor(clock, times) ==
  IF ~times.valid THEN (3 * Unit) \div 10
  ELSE
    LET morningOptimal == times.sunrise + 60
        morningEnd     == times.sunrise + 180
        eveningStart   == times.sunset - 180
        eveningOptimal == times.sunset - 60
    IN  IF \/ clock >= morningOptimal /\ clock <= morningEnd
           \/ clock >= eveningStart /\ clock <= eveningOptimal
          THEN Unit
        ELSE IF \/ clock >= times.sunrise /\ clock < morningOptimal
                \/ clock > eveningOptimal /\ clock <= times.sunset
          THEN (7 * Unit) \div 10
        ELSE (3 * Unit) \div 10

\* calculateDetailedRainbowConditions(input).probability
calculateRainbowProbabilityTS(weather, sunAngle, clock, times) ==
  LET sunAngleFactor     == calculateSunAngleFactorTS(sunAngle)
      waterDropletFactor == calculateWaterDropletFactor(weather)
      lightFactor        == calculateLightFactor(weather, sunAngle)
      visibilityShare   == calculateVisibilityFactor(weather)
      timingFactor       == calculateTimingFactor(clock, times)
      product ==
        (((((((sunAngleFactor * waterDropletFactor) \div Unit) * lightFactor) \div Unit)
             * visibilityShare) \div Unit) * timingFactor) \div Unit
  IN  Min(100 * Unit, product)

\* getRainbowForecast's default number of hours
DEFAULT_FORECAST_HOURS == 24

\* one entry of forecast.hourly, with the altitude
\* SunCalculator.calculateSunPosition gives for its instant
Hourly(sunAngle, main, description, rain1h, humidity, clouds, visibility) ==
  [ sunAngle |-> sunAngle, main |-> main, description |-> description,
    rain1h |-> rain1h, humidity |-> humidity, clouds |-> clouds,
    visibility |-> visibility ]

\* the WeatherConditions built from an hourly entry (visibility stays in
\* metres here; the program divides by 1000 and compares with kilometres)
WeatherConditions(hourlyData) ==
  [ humidity           |-> hourlyData.humidity,
    visibility         |-> hourlyData.visibility,
    cloudiness         |-> hourlyData.clouds,
    precipitation      |-> hourlyData.rain1h,
    weatherMain        |-> hourlyData.main,
    weatherDescription |-> hourlyData.description ]

\* the probabilities of the hours of a forecast scanned at wall-clock time clock
hourlyProbabilities(hours, clock, times) ==
  [ i \in 1..Len(hours) |->
      calculateRainbowProbabilityTS(WeatherConditions(hours[i]), hours[i].sunAngle,
                                    clock, times) ]

HourlySkies ==
  { <<"Rain", "light rain", 1, 85, 40, 10000>>,
    <<"Rain", "nebolshoy dozhd", 0, 80, 60, 6000>>,
    <<"Mist", "tuman", 0, 95, 90, 1500>>,
    <<"Clear", "yasno", 0, 40, 0, 10000>> }

HourlySunAngles == {-50, 50, 200, 380}

HourlyEntries ==
  { Hourly(a, k[1], k[2], k[3], k[4], k[5], k[6]) : a \in HourlySunAngles, k \in HourlySkies }

MaxHours == 2

HourlySeqs == UNION { [1..n -> HourlyEntries] : n \in 1..MaxHours }

\* wall-clock times, minutes of the day
Clock == {0, 300, 359, 360, 480, 481, 720, 1080, 1200, 1201, 1260, 1261}

\* sunrise 05:00 and sunset 21:00, or Invalid Dates
SunTimesToday ==
  { [valid |-> TRUE, sunrise |-> 300, sunset |-> 1260],
    [valid |-> FALSE, sunrise |-> 0, sunset |-> 0] }

ForecastInit ==
  /\ hourly \in HourlySeqs
  /\ now \in Clock
  /\ sunTimes \in SunTimesToday
  /\ forecast = << >>
  /\ fpc = "ready"
  /\ ScorerIdle
  /\ SearchIdle
  /\ SolarIdle
  /\ MonitorIdle
  /\ AngleIdle
  /\ FactorIdle
  /\ AppIdle

\* getRainbowForecast(latitude, longitude) when the forecast is fetched
GetRainbowForecast ==
  /\ fpc = "ready"
  /\ forecast' = getRainbowForecast(hourlyProbabilities(hourly, now, sunTimes),
                                    DEFAULT_FORECAST_HOURS)
  /\ fpc' = "done"
  /\ UNCHANGED <<hourly, now, sunTimes>>
  /\ UNCHANGED notForecast

\* getDetailedForecast rejects: getRainbowForecast throws
GetRainbowForecastFails ==
  /\ fpc = "ready"
  /\ fpc' = "thrown"
  /\ UNCHANGED <<hourly, now, sunTimes, forecast>>
  /\ UNCHANGED notForecast

ForecastNext == GetRainbowForecast \/ GetRainbowForecastFails

ForecastSpec == ForecastInit /\ [][ForecastNext]_vars

\* C13: the assessment of a forecast entry depends on the entry's instant,
\* location and weather only: scanning the same hourly sequence at another
\* wall-clock time gives the same probability for every entry.
C13_ScanIndependentOfWallClock ==
  fpc = "done"
    => \A clock \in Clock :
         \A i \in 1..Len(forecast) :
           forecast[i].probability = hourlyProbabilities(hourly, clock, sunTimes)[i]

\* C14: a scoring call reads and writes no shared mutable state: every
\* class-static structure (here Logger.logs) has the same value after the
\* call as before it.
C14_ScoringLeavesSharedStateUnchanged ==
  [][(pc = "ready" /\ pc' = "returned") => logs' = logs]_vars

----------------------------------------------------------------------------
(* SunCalculator.calculateSolarEvents (calculateSunriseSunsetSimple).       *)
(* The trigonometry up to the hour-angle cosines and the UTC event times is *)
(* an input: cosHSunrise and cosHSunset in 1/Unit, UTCSunrise and UTCSunset *)
(* and the device's zone offset in minutes.  Returned Dates are minutes of  *)
(* the local day.                                                           *)

DateAt(minutes) == [isNull |-> FALSE, time |-> minutes]

\* while (t < 0) t += 24; while (t >= 24) t -= 24
normalizeTime(time) == ((time % 1440) + 1440) % 1440

calculateSunriseSunsetSimple(in) ==
  IF Abs(in.cosHSunrise) > Unit \/ Abs(in.cosHSunset) > Unit
    THEN [ sunrise      |-> Null,
           sunset       |-> Null,
           solarNoon    |-> Null,
           isPolarNight |-> in.cosHSunrise > Unit,
           isPolarDay   |-> in.cosHSunrise < -Unit ]
  ELSE
    LET localSunrise  == normalizeTime(in.UTCSunrise + in.timezoneOffset)
        localSunset   == normalizeTime(in.UTCSunset + in.timezoneOffset)
        solarNoonTime == (localSunrise + localSunset) \div 2
    IN  [ sunrise      |-> DateAt(localSunrise),
          sunset       |-> DateAt(localSunset),
          solarNoon    |-> DateAt(solarNoonTime),
          isPolarNight |-> FALSE,
          isPolarDay   |-> FALSE ]

calculateSolarEvents(in) == calculateSunriseSunsetSimple(in)

\* hour-angle cosines around the two polar thresholds; the sunrise and the
\* sunset value of one day differ by the change of declination in 12 hours
HourAngleCosines ==
  { <<r, s>> \in {-10500, -10024, -10001, -10000, -9971, -5000, 0, 5000,
                  9994, 10000, 10001, 10027, 10500}
                 \X {-10500, -10024, -10001, -10000, -9971, -5000, 0, 5000,
                     9994, 10000, 10001, 10027, 10500} :
      Abs(r - s) <= 100 }

\* (UTCSunrise, UTCSunset) in minutes
UTCEventTimes == { <<120, 1080>>, <<-60, 900>>, <<600, 1500>> }

TimezoneOffsets == {-300, 0, 180}

SolarInit ==
  /\ \E c \in HourAngleCosines, t \in UTCEventTimes, z \in TimezoneOffsets :
       solarInput = [ cosHSunrise |-> c[1], cosHSunset |-> c[2],
                      UTCSunrise |-> t[1], UTCSunset |-> t[2],
                      timezoneOffset |-> z ]
  /\ solarEvents = Null
  /\ epc = "ready"
  /\ ScorerIdle
  /\ SearchIdle
  /\ ForecastIdle
  /\ MonitorIdle
  /\ AngleIdle
  /\ FactorIdle
  /\ AppIdle

CalculateSolarEvents ==
  /\ epc = "ready"
  /\ solarEvents' = calculateSolarEvents(solarInput)
  /\ epc' = "done"
  /\ UNCHANGED solarInput
  /\ UNCHANGED notSolar

SolarNext == CalculateSolarEvents

SolarSpec == SolarInit /\ [][SolarNext]_vars

\* C15: calculateSolarEvents never throws; when the hour-angle cosine for
\* sunrise or for sunset is outside [-1, 1] it returns sunrise = null and
\* sunset = null with exactly one of isPolarDay / isPolarNight true;
\* otherwise both flags are false and sunrise and sunset are non-null.
C15_PolarResultIsFlagged ==
  epc = "done"
    => IF Abs(solarInput.cosHSunrise) > Unit \/ Abs(solarInput.cosHSunset) > Unit
         THEN /\ solarEvents.sunrise = Null
              /\ solarEvents.sunset = Null
              /\ solarEvents.isPolarDay # solarEvents.isPolarNight
         ELSE /\ solarEvents.sunrise # Null
              /\ solarEvents.sunset # Null
              /\ ~solarEvents.isPolarDay
              /\ ~solarEvents.isPolarNight

----------------------------------------------------------------------------
(* The backend: WeatherMonitorService (cron-driven checks of the monitored  *)
(* locations), NotificationService and the /update-location route.          *)
(* Coordinates are in thousandths of a degree.  A checkAllLocations run is  *)
(* an async function: it gives up control while its weather request and its *)
(* push request are in flight, and other runs, route handlers and cron jobs *)
(* execute in between.                                                      *)

dailyApiLimit == 900

\* the push alert threshold of checkLocationForRainbow
alertThreshold == 80

\* Number.prototype.toFixed(2): the sign and the digits, in hundredths
toFixed2(x) == [negative |-> x < 0, hundredths |-> (Abs(x) + 5) \div 10]

\* `${latitude.toFixed(2)}_${longitude.toFixed(2)}`
locationKey(location) == << toFixed2(location.latitude), toFixed2(location.longitude) >>

\* the index of a key in the Map, 0 when absent
keyIndex(map, key) ==
  IF \E i \in 1..Len(map) : map[i].key = key
    THEN CHOOSE i \in 1..Len(map) : map[i].key = key
    ELSE 0

\* Map.prototype.set: replace the value in place or append a new entry
mapSet(map, key, value) ==
  IF keyIndex(map, key) # 0
    THEN [map EXCEPT ![keyIndex(map, key)] = [key |-> key, value |-> value]]
    ELSE Append(map, [key |-> key, value |-> value])

addLocationToMonitor(map, location) == mapSet(map, locationKey(location), location)

\* a variant of the limit test that lets one more request through
limitReached_late(count) == count > dailyApiLimit

\* this.apiCallCount >= this.dailyApiLimit
limitReached(count) == count >= dailyApiLimit

\* WeatherMonitorService.calculateRainbowProbability(weather)
\* a variant of the score that gives humidity 50 points
monitorProbability_humidity50(weather) ==
  LET humidity == weather.humidity
      clouds   == weather.clouds
      fromHumidity == IF humidity > 70 THEN 50 ELSE 0
      fromClouds   == IF clouds > 20 /\ clouds < 80 THEN 30 ELSE 0
      fromRain     == IF weather.hasRain THEN 30 ELSE 0
  IN  Min(fromHumidity + fromClouds + fromRain, 100)

monitorProbability(weather) ==
  LET humidity == weather.humidity
      clouds   == weather.clouds
      fromHumidity == IF humidity > 70 THEN 40 ELSE 0
      fromClouds   == IF clouds > 20 /\ clouds < 80 THEN 30 ELSE 0
      fromRain     == IF weather.hasRain THEN 30 ELSE 0
  IN  Min(fromHumidity + fromClouds + fromRain, 100)

\* a variant of the alert test with a lower threshold
alertDue_from70(probability) == probability >= 70

\* probability >= 80 in checkLocationForRainbow
alertDue(probability) == probability >= alertThreshold

\* the messages sendRainbowAlert builds: the tokens it pushes to
alertMessages(registry, probability) ==
  { t \in DOMAIN registry :
      /\ registry[t].registered
      /\ probability >= registry[t].minProbability
      /\ registry[t].location # Null }

NoResponse == [kind |-> "none"]
ErrorResponse == [kind |-> "error"]
WeatherData(humidity, clouds, hasRain) ==
  [kind |-> "data", humidity |-> humidity, clouds |-> clouds, hasRain |-> hasRain]

\* what the weather API can answer
Responses ==
  { ErrorResponse, WeatherData(80, 50, TRUE), WeatherData(80, 50, FALSE),
    WeatherData(60, 90, FALSE), WeatherData(70, 80, TRUE),
    WeatherData(71, 79, FALSE), WeatherData(60, 21, TRUE), WeatherData(80, 90, FALSE) }

Location(latitude, longitude, name) ==
  [latitude |-> latitude, longitude |-> longitude, name |-> name]

\* two places in Greenwich on either side of the meridian, and a third one
\* 300 m from the first
Locations ==
  { Location(51484, 1, "a"), Location(51481, 4, "b"), Location(51484, -1, "c") }

Tokens == {"u1"}

Runs == {1, 2}

NoUser == [registered |-> FALSE, minProbability |-> 0, location |-> Null]

\* what a route handler answers: res.json(...) or res.status(400).json(...)
NoReply == [status |-> 0]
Reply(status) == [status |-> status]

IdleRun ==
  [phase |-> "idle", idx |-> 0, response |-> NoResponse, requested |-> << >>,
   messages |-> {}]

\* The service after construction, and the service late in a day on which
\* one user's location has been checked since midnight.
MonitorInit ==
  /\ \/ /\ apiCallCount = 0
        /\ monitoredLocations = << >>
        /\ users = [t \in Tokens |-> NoUser]
     \/ /\ apiCallCount = dailyApiLimit - 2
        /\ \E l \in Locations :
             /\ monitoredLocations = addLocationToMonitor(<< >>, l)
             /\ users = [t \in Tokens |->
                           [registered |-> TRUE, minProbability |-> alertThreshold,
                            location |-> l]]
  /\ issued = apiCallCount
  /\ runs = [r \in Runs |-> IdleRun]
  /\ lastResponse = NoReply
  /\ ScorerIdle
  /\ SearchIdle
  /\ ForecastIdle
  /\ SolarIdle
  /\ AngleIdle
  /\ FactorIdle
  /\ AppIdle

\* POST /register: NotificationService.registerUser with a valid token
RegisterUser(t, minProbability) ==
  /\ users' = [users EXCEPT ![t] =
                 [registered |-> TRUE, minProbability |-> minProbability,
                  location |-> Null]]
  /\ lastResponse' = Reply(200)
  /\ UNCHANGED <<apiCallCount, issued, monitoredLocations, runs>>
  /\ UNCHANGED notMonitor

\* a variant of the lookup in updateUserLocation that accepts every token
userKnown_always(registry, t) == TRUE

\* users.get(pushToken) is defined
userKnown(registry, t) == registry[t].registered

\* POST /update-location: updateUserLocation, then addLocationToMonitor; for
\* an unknown token updateUserLocation throws before either and the catch
\* answers 400
UpdateLocation(t, location) ==
  /\ IF userKnown(users, t)
       THEN /\ users' = [users EXCEPT ![t].location = location]
            /\ monitoredLocations' = addLocationToMonitor(monitoredLocations, location)
            /\ lastResponse' = Reply(200)
       ELSE /\ UNCHANGED <<users, monitoredLocations>>
            /\ lastResponse' = Reply(400)
  /\ UNCHANGED <<apiCallCount, issued, runs>>
  /\ UNCHANGED notMonitor

\* the 5-minute cron job starts checkAllLocations
StartCheck(r) ==
  /\ runs[r].phase = "idle"
  /\ runs' = [runs EXCEPT ![r].phase = "fetch"]
  /\ UNCHANGED <<apiCallCount, issued, monitoredLocations, users, lastResponse>>
  /\ UNCHANGED notMonitor

\* the loop over monitoredLocations.values() is exhausted
FinishCheck(r) ==
  /\ runs[r].phase = "fetch"
  /\ runs[r].idx >= Len(monitoredLocations)
  /\ runs' = [runs EXCEPT ![r].phase = "finished"]
  /\ UNCHANGED <<apiCallCount, issued, monitoredLocations, users, lastResponse>>
  /\ UNCHANGED notMonitor

\* getWeatherData at the limit: returns null, the location is skipped
LimitRefuses(r) ==
  /\ runs[r].phase = "fetch"
  /\ runs[r].idx < Len(monitoredLocations)
  /\ limitReached(apiCallCount)
  /\ runs' = [runs EXCEPT ![r].idx = @ + 1]
  /\ UNCHANGED <<apiCallCount, issued, monitoredLocations, users, lastResponse>>
  /\ UNCHANGED notMonitor

\* getWeatherData below the limit: count the call and send the request; the
\* answer that will come back is in flight
IssueRequest(r, answer) ==
  /\ runs[r].phase = "fetch"
  /\ runs[r].idx < Len(monitoredLocations)
  /\ ~limitReached(apiCallCount)
  /\ apiCallCount' = apiCallCount + 1
  /\ issued' = issued + 1
  /\ runs' = [runs EXCEPT ![r].phase = "awaiting",
                          ![r].response = answer,
                          ![r].requested =
                            Append(@, monitoredLocations[runs[r].idx + 1].value)]
  /\ UNCHANGED <<monitoredLocations, users, lastResponse>>
  /\ UNCHANGED notMonitor

\* the request settles: on an error or a probability below the threshold the
\* loop goes on, otherwise sendRainbowAlert is called and its push is sent
ReceiveWeather(r) ==
  /\ runs[r].phase = "awaiting"
  /\ IF runs[r].response.kind = "data" /\ alertDue(monitorProbability(runs[r].response))
       THEN runs' = [runs EXCEPT ![r].phase = "alerting",
                                 ![r].messages =
                                   alertMessages(users, monitorProbability(runs[r].response))]
       ELSE runs' = [runs EXCEPT ![r].phase = "fetch",
                                 ![r].idx = @ + 1,
                                 ![r].response = NoResponse]
  /\ UNCHANGED <<apiCallCount, issued, monitoredLocations, users, lastResponse>>
  /\ UNCHANGED notMonitor

\* sendRainbowAlert settles (a failed push is caught and logged)
AlertDone(r) ==
  /\ runs[r].phase = "alerting"
  /\ runs' = [runs EXCEPT ![r].phase = "fetch",
                          ![r].idx = @ + 1,
                          ![r].response = NoResponse,
                          ![r].messages = {}]
  /\ UNCHANGED <<apiCallCount, issued, monitoredLocations, users, lastResponse>>
  /\ UNCHANGED notMonitor

\* the midnight cron job
ResetDailyApiCount ==
  /\ apiCallCount' = 0
  /\ issued' = 0
  /\ UNCHANGED <<monitoredLocations, users, runs, lastResponse>>
  /\ UNCHANGED notMonitor

MonitorNext ==
  \/ \E t \in Tokens, m \in {50, alertThreshold} : RegisterUser(t, m)
  \/ \E t \in Tokens, l \in Locations : UpdateLocation(t, l)
  \/ \E r \in Runs : StartCheck(r)
  \/ \E r \in Runs : FinishCheck(r)
  \/ \E r \in Runs : LimitRefuses(r)
  \/ \E r \in Runs, answer \in Responses : IssueRequest(r, answer)
  \/ \E r \in Runs : ReceiveWeather(r)
  \/ \E r \in Runs : AlertDone(r)
  \/ ResetDailyApiCount

MonitorSpec == MonitorInit /\ [][MonitorNext]_vars

\* C16: between two consecutive resetDailyApiCount calls at most 900 weather
\* requests are issued, whatever the interleaving of overlapping
\* checkAllLocations runs and location updates; at the limit getWeatherData
\* issues nothing and leaves the counter alone.
C16_DailyRequestLimit ==
  /\ issued <= dailyApiLimit
  /\ apiCallCount <= dailyApiLimit
  /\ issued = apiCallCount

\* C16 witness: the counter stands at 900 with 900 requests issued, and a
\* run has passed a location without requesting it while another run's
\* request is in flight
C16_Witness ==
  /\ apiCallCount = dailyApiLimit
  /\ issued = dailyApiLimit
  /\ \E r \in Runs : runs[r].idx > Len(runs[r].requested)
  /\ \E r \in Runs : runs[r].phase = "awaiting"

\* the probability computed from the answer a run is holding
AnswerProbability(r) == monitorProbability(runs[r].response)

\* C17: push alerts go out at probability 80 and above: a check that gets
\* weather and computes a probability >= 80 calls sendRainbowAlert for its
\* location, and no push message is sent for a check whose probability is
\* below 80 or whose weather fetch returned null.
C17_AlertsFromEighty ==
  /\ [](\A r \in Runs :
          runs[r].phase = "alerting"
            => runs[r].response.kind = "data" /\ AnswerProbability(r) >= 80)
  /\ [](\A r \in Runs : runs[r].messages # {} => runs[r].phase = "alerting")
  /\ [][\A r \in Runs :
          ( /\ runs[r].phase = "awaiting"
            /\ runs'[r].phase # "awaiting"
            /\ runs[r].response.kind = "data"
            /\ AnswerProbability(r) >= 80 )
            => runs'[r].phase = "alerting"]_vars

\* C17 witness: an alert for a probability-100 check is pushing a message to
\* a user while another check has ended without an alert
C17_Witness ==
  \E r, q \in Runs :
    /\ runs[r].phase = "alerting"
    /\ AnswerProbability(r) = 100
    /\ runs[r].messages # {}
    /\ runs[q].phase = "fetch"
    /\ runs[q].idx > 0
    /\ runs[q].idx = Len(runs[q].requested)

\* a coordinate rounded to two decimals, in hundredths of a degree
RoundedToHundredths(x) ==
  IF x < 0 THEN 0 - ((Abs(x) + 5) \div 10) ELSE (x + 5) \div 10

\* two locations agree after rounding to two decimals
SameRoundedLocation(a, b) ==
  /\ RoundedToHundredths(a.latitude) = RoundedToHundredths(b.latitude)
  /\ RoundedToHundredths(a.longitude) = RoundedToHundredths(b.longitude)

\* C18: locations whose latitude and longitude agree after rounding to two
\* decimals share a single monitoring entry, so one checkAllLocations pass
\* issues at most one weather request per rounded location, however many
\* users reported it.
C18_OneRequestPerRoundedLocation ==
  /\ \A i, j \in 1..Len(monitoredLocations) :
       i < j => ~SameRoundedLocation(monitoredLocations[i].value,
                                     monitoredLocations[j].value)
  /\ \A r \in Runs :
       \A i, j \in 1..Len(runs[r].requested) :
         i < j => ~SameRoundedLocation(runs[r].requested[i], runs[r].requested[j])

----------------------------------------------------------------------------
(* RainbowCalculator.calculateSunAngleFactor called on its own.  The       *)
(* argument is an altitude in tenths of a degree, or NaN; every comparison *)
(* with NaN is false, so a NaN argument falls through to the last branch   *)
(* and the arithmetic there returns NaN.                                   *)

MaxAngleTenths == 450

AngleArgument(value) == [nan |-> FALSE, value |-> value]

NaNArgument == [nan |-> TRUE, value |-> 0]

AngleArguments ==
  { AngleArgument(a) : a \in (0 - MaxAngleTenths)..MaxAngleTenths }
  \cup { NaNArgument }

calculateSunAngleFactorOf(argument) ==
  IF argument.nan THEN [nan |-> TRUE, value |-> 0]
  ELSE [nan |-> FALSE, value |-> calculateSunAngleFactor(argument.value)]

AngleInit ==
  /\ altitudeArg \in AngleArguments
  /\ angleFactor = Null
  /\ apc = "ready"
  /\ ScorerIdle
  /\ SearchIdle
  /\ ForecastIdle
  /\ SolarIdle
  /\ MonitorIdle
  /\ FactorIdle
  /\ AppIdle

CalculateSunAngleFactor ==
  /\ apc = "ready"
  /\ angleFactor' = calculateSunAngleFactorOf(altitudeArg)
  /\ apc' = "done"
  /\ UNCHANGED altitudeArg
  /\ UNCHANGED notAngle

AngleNext == CalculateSunAngleFactor

AngleSpec == AngleInit /\ [][AngleNext]_vars

\* a call on an altitude has returned
AngleReturned == apc = "done" /\ ~altitudeArg.nan

\* C19: calculateSunAngleFactor returns 0 for every altitude below 5 degrees
\* or above 42 degrees, exactly 1.0 for every altitude in [15, 25], and on
\* (25, 42] falls linearly from 1.0 at 25 degrees to 0.2 at 42 degrees; its
\* value is always within [0, 1].  The linear fall is stated to the model's
\* resolution of 1/Unit: Unit - factor is 0.8 * (altitude - 25) / 17
\* rounded down.
C19_SunAngleFactorShape ==
  AngleReturned =>
    LET altitude == altitudeArg.value
        factor == angleFactor.value
    IN  /\ ~angleFactor.nan
        /\ (altitude < 50 \/ altitude > 420) => factor = 0
        /\ (altitude >= 150 /\ altitude <= 250) => factor = Unit
        /\ (altitude > 250 /\ altitude <= 420) =>
             /\ 170 * (Unit - factor) <= 8 * (Unit \div 10) * (altitude - 250)
             /\ 8 * (Unit \div 10) * (altitude - 250) < 170 * (Unit - factor) + 170
        /\ altitude = 420 => factor = (2 * Unit) \div 10
        /\ factor >= 0
        /\ factor <= Unit

\* C19 witness: the call on 42 degrees has returned 0.2, the end of the fall
C19_Witness ==
  /\ AngleReturned
  /\ altitudeArg.value = 420
  /\ angleFactor.value = (2 * Unit) \div 10

\* C20: on altitudes in [5, 15) calculateSunAngleFactor is the linear ramp
\* that starts at 0.3 at 5 degrees and reaches 1.0 at 15 degrees, so the
\* factor at exactly 5 degrees is 0.3 and at 10 degrees is 0.65.
C20_LowRampFromThreeTenths ==
  (AngleReturned /\ altitudeArg.value >= 50 /\ altitudeArg.value < 150) =>
    angleFactor.value
      = (3 * Unit) \div 10 + (7 * (Unit \div 10) * (altitudeArg.value - 50)) \div 100

----------------------------------------------------------------------------
(* The factor stage of calculateRainbowProbability on its own: the sun-    *)
(* angle, weather and atmospheric factors of a snapshot and the base       *)
(* probability computed from them.  The recent-rain signal of a snapshot   *)
(* is what WeatherService.analyzeRecentRain made of the first forecast     *)
(* entry, or absent when the forecast request failed.                      *)

ForecastEntry(description, humidity, clouds) ==
  [description |-> description, humidity |-> humidity, clouds |-> clouds]

\* timeSinceRain in minutes; null (no rain found) is 0
analyzeRecentRain(forecastList) ==
  IF forecastList = << >> THEN Signal(FALSE, 0)
  ELSE LET currentForecast == forecastList[1]
           description == toLowerCase(currentForecast.description)
           humidity == currentForecast.humidity
           clouds == currentForecast.clouds
           hasRecentRain ==
             \/ includes(description, "dozhd") \/ includes(description, "rain")
             \/ includes(description, "shower") \/ includes(description, "drizzle")
             \/ includes(description, "liven") \/ includes(description, "moros")
             \/ (humidity > 85 /\ clouds > 70)
           timeSinceRain ==
             IF ~hasRecentRain THEN 0
             ELSE IF humidity > 95 THEN 15
             ELSE IF humidity > 90 THEN 30
             ELSE IF humidity > 85 THEN 60
             ELSE 120
       IN  Signal(hasRecentRain, timeSinceRain)

\* forecast lists analyzeRecentRain is given
ForecastLists ==
  { << >> }
  \cup { << ForecastEntry(d, h, c) >> :
           d \in {"yasno", "light rain", "Dozhd"}, h \in {60, 86, 91, 96}, c \in {45, 85} }

\* signals of a caller that measured the time since the rain itself
MeasuredSignals ==
  { Signal(TRUE, m) : m \in {0, 59, 60, 119, 120, 239, 240, 479, 480, 1440} }

RecentRainSignals ==
  { NoSignal } \cup { analyzeRecentRain(l) : l \in ForecastLists } \cup MeasuredSignals

\* visibility (m, 0 = absent), temperature (C), UV index (1/Unit, 0 = absent),
\* wind speed (tenths of m/s)
Surroundings ==
  { <<0, 20, 0, 0>>, <<5000, 3, 6 * Unit, 30>>, <<3000, 35, 0, 65>>,
    <<12000, -5, 0, 150>> }

FactorSnapshot(sky, humidity, signal, around) ==
  [ Weather("ok", sky, <<humidity, signal, around[1], around[2], around[3]>>)
      EXCEPT !.wind = around[4] ]

FactorSnapshots ==
  { FactorSnapshot(sky, humidity, signal, around) :
      sky \in Skies, humidity \in 0..100, signal \in RecentRainSignals,
      around \in Surroundings }

FactorInputs ==
  { [weather |-> w, altitude |-> a, latitude |-> 55] :
      w \in FactorSnapshots, a \in {100, 200} }

calculateFactors(input) ==
  LET sunAngleFactor == calculateSunAngleFactor(input.altitude)
      weatherFactors == calculateWeatherFactors(input.weather)
      atmosphericFactors == calculateAtmosphericFactors(input.weather, input.latitude)
  IN  [ sunAngleFactor     |-> sunAngleFactor,
        weatherFactors     |-> weatherFactors,
        atmosphericFactors |-> atmosphericFactors,
        baseProbability    |->
          calculateBaseProbability(sunAngleFactor, weatherFactors, atmosphericFactors) ]

FactorInit ==
  /\ factorInput \in FactorInputs
  /\ factorOutput = Null
  /\ wpc = "ready"
  /\ ScorerIdle
  /\ SearchIdle
  /\ ForecastIdle
  /\ SolarIdle
  /\ MonitorIdle
  /\ AngleIdle
  /\ AppIdle

CalculateFactors ==
  /\ wpc = "ready"
  /\ factorOutput' = calculateFactors(factorInput)
  /\ wpc' = "done"
  /\ UNCHANGED factorInput
  /\ UNCHANGED notFactor

FactorNext == CalculateFactors

FactorSpec == FactorInit /\ [][FactorNext]_vars

\* the factor stage has run
FactorsComputed == wpc = "done"

\* a factor value within [0, 1]
InUnitRange(factor) == factor >= 0 /\ factor <= Unit

\* C21: for every snapshot with humidity and cloud cover in [0, 100],
\* visibility >= 0 and wind speed >= 0, each of the recent-rain, sunlight,
\* cloud, visibility, humidity, wind and rain factors lies in [0, 1]; the
\* humidity factor is 1.0 on [75, 90], below 1 on [60, 75), 0 below 60 and
\* never above 1 on (90, 100].
C21_WeatherFactorsInUnitRange ==
  ( /\ FactorsComputed
    /\ factorInput.weather.humidity >= 0 /\ factorInput.weather.humidity <= 100
    /\ factorInput.weather.clouds >= 0 /\ factorInput.weather.clouds <= 100
    /\ factorInput.weather.visibility >= 0
    /\ factorInput.weather.wind >= 0 )
  => LET factors == factorOutput.weatherFactors
         humidity == factorInput.weather.humidity
     IN  /\ InUnitRange(factors.recentRainFactor)
         /\ InUnitRange(factors.sunlightFactor)
         /\ InUnitRange(factors.cloudFactor)
         /\ InUnitRange(factors.visibilityFactor)
         /\ InUnitRange(factors.humidityFactor)
         /\ InUnitRange(factors.windFactor)
         /\ InUnitRange(factors.rainFactor)
         /\ (humidity >= 75 /\ humidity <= 90) => factors.humidityFactor = Unit
         /\ (humidity >= 60 /\ humidity < 75) => factors.humidityFactor < Unit
         /\ humidity < 60 => factors.humidityFactor = 0

\* the recent-rain factor the snapshot would get with another signal
FactorWithSignal(signal) ==
  recentRainFactor([factorInput.weather EXCEPT !.recentRain = signal])

\* C22: the recent-rain factor is 1.0 when the signal says rain fell less
\* than one hour ago, 0.9, 0.7, 0.5 and 0.3 for elapsed times in [1, 2),
\* [2, 4), [4, 8) and >= 8 hours, and 0 when there is no recent rain (no
\* signal, or hasRecentRain false); so it never increases with the time
\* since the rain.
C22_RecentRainFactorBands ==
  FactorsComputed =>
    LET recent == factorInput.weather.recentRain
        minutes == recent.timeSinceRain
        factor == factorOutput.weatherFactors.recentRainFactor
    IN  /\ (~recent.present \/ ~recent.hasRecentRain) => factor = 0
        /\ (recent.present /\ recent.hasRecentRain) =>
             /\ minutes < 60 => factor = Unit
             /\ (minutes >= 60 /\ minutes < 120) => factor = (9 * Unit) \div 10
             /\ (minutes >= 120 /\ minutes < 240) => factor = (7 * Unit) \div 10
             /\ (minutes >= 240 /\ minutes < 480) => factor = (5 * Unit) \div 10
             /\ minutes >= 480 => factor = (3 * Unit) \div 10
             /\ \A later \in RecentRainSignals :
                  (later.hasRecentRain /\ later.timeSinceRain >= minutes)
                    => FactorWithSignal(later) <= factor

\* C22 witness: a snapshot whose rain fell four hours ago got 0.5
C22_Witness ==
  /\ FactorsComputed
  /\ factorInput.weather.recentRain.hasRecentRain
  /\ factorInput.weather.recentRain.timeSinceRain = 240
  /\ factorOutput.weatherFactors.recentRainFactor = (5 * Unit) \div 10

\* the description is one the current-rain factor classifies as rain
ClassifiedAsRain(weather) ==
  \/ includes(toLowerCase(weather.description), "dozhd")
  \/ includes(toLowerCase(weather.description), "rain")

\* C23: the x1.2 rain bonus is applied whenever the current condition text
\* indicates rain and 5 < altitude < 30: for exactly the descriptions the
\* current-rain factor classifies as rain (containing "dozhd" or "rain",
\* compared case-insensitively) and for no other description.
C23_RainBonusMatchesRainClassification ==
  ( /\ Returned /\ AcceptedCall
    /\ conditions.weather.shape = "ok"
    /\ ~sun.nan /\ sun.altitude >= 50
    /\ ~isNightHour(conditions.dateTime.hour) )
  => ( rainBonusApplies(conditions.weather, sun)
         <=> ( /\ ClassifiedAsRain(conditions.weather)
               /\ sun.altitude > 50 /\ sun.altitude < 300 ) )

\* C24: for every non-polar result of calculateSolarEvents, sunrise <
\* solarNoon < sunset, all three fall on the calendar day of the input
\* instant, and solarNoon is the midpoint of sunrise and sunset (to the
\* minute), for every longitude and device zone offset, also when the
\* computed local sunset wraps past 24h.
C24_SunriseNoonSunsetOrdered ==
  (epc = "done" /\ solarEvents.sunrise # Null)
    => /\ solarEvents.sunrise.time < solarEvents.solarNoon.time
       /\ solarEvents.solarNoon.time < solarEvents.sunset.time
       /\ solarEvents.sunrise.time \in 0..1439
       /\ solarEvents.solarNoon.time \in 0..1439
       /\ solarEvents.sunset.time \in 0..1439
       /\ 2 * solarEvents.solarNoon.time
            \in { solarEvents.sunrise.time + solarEvents.sunset.time - 1,
                  solarEvents.sunrise.time + solarEvents.sunset.time }

\* C26: once a user has registered a push token and reported a location,
\* the stored location remains set after every later register or
\* update-location call for the same token; re-registering the token does
\* not clear it.
C26_LocationSurvivesReRegistration ==
  [][\A t \in Tokens :
       (users[t].registered /\ users[t].location # Null)
         => users'[t].location # Null]_vars

\* the location a run is alerting for: the one it requested last
AlertedLocation(r) == runs[r].requested[Len(runs[r].requested)]

C28_UnknownTokenChangesNothing ==
  /\ [][\A t \in Tokens, l \in Locations :
          (~users[t].registered /\ UpdateLocation(t, l))
            => /\ lastResponse' = Reply(400)
               /\ users' = users
               /\ monitoredLocations' = monitoredLocations]_vars
  /\ [][monitoredLocations' # monitoredLocations
          => /\ lastResponse' = Reply(200)
             /\ \E t \in Tokens :
                  /\ users[t].registered
                  /\ users'[t].location # Null
                  /\ keyIndex(monitoredLocations', locationKey(users'[t].location)) # 0]_vars

\* C28 witness: an update-location for the unregistered token was answered
\* with 400 and nothing is monitored
C28_Witness ==
  /\ lastResponse = Reply(400)
  /\ \E t \in Tokens : ~users[t].registered /\ users[t].location = Null
  /\ monitoredLocations = << >>

\* C30: the backend monitor's score takes only the values 0, 30, 40, 60, 70
\* and 100, so it reaches the alert threshold only at 100: sendRainbowAlert
\* is invoked for a location only when its weather has humidity > 70, cloud
\* cover strictly between 20 and 80 and a condition whose main is 'Rain'.
C30_AlertOnlyAtFullScore ==
  \A r \in Runs :
    /\ runs[r].response.kind = "data"
         => AnswerProbability(r) \in {0, 30, 40, 60, 70, 100}
    /\ runs[r].phase = "alerting"
         => /\ runs[r].response.kind = "data"
            /\ runs[r].response.humidity > 70
            /\ runs[r].response.clouds > 20
            /\ runs[r].response.clouds < 80
            /\ runs[r].response.hasRain
            /\ AnswerProbability(r) = 100

\* C30 witness: one check is alerting on humid, half-cloudy rain while
\* another holds an answer that scores 70 (humid and half-cloudy, no rain)
C30_Witness ==
  \E r, q \in Runs :
    /\ runs[r].phase = "alerting"
    /\ runs[r].response = WeatherData(80, 50, TRUE)
    /\ runs[q].phase = "awaiting"
    /\ runs[q].response.kind = "data"
    /\ ~runs[q].response.hasRain
    /\ AnswerProbability(q) = 70

----------------------------------------------------------------------------
(* The App component: updateRainbowData and what triggers it (the 5-minute *)
(* interval, pull-to-refresh, the update button).  JavaScript runs each    *)
(* piece of a handler between two awaits without interruption, so an       *)
(* action is the code from one await to the next.  The data a run puts on  *)
(* the screen (weather, sun data, rainbow result, time of the last update) *)
(* is not part of the state.                                               *)

UpdateRuns == {1, 2, 3}

NotCalled == [phase |-> "idle", trigger |-> "none", showLoading |-> FALSE, exit |-> "none"]

Running(run, phase) == [run EXCEPT !.phase = phase]

Ended(run, exit) == [run EXCEPT !.phase = "ended", !.exit = exit]

Triggered(trigger, showLoading) ==
  [phase |-> "called", trigger |-> trigger, showLoading |-> showLoading, exit |-> "none"]

\* a variant of the entry test that looks at the mounted flag only
updateSkipped_unmountedOnly(mounted, inProgress) == ~mounted

\* !isMountedRef.current || updateInProgressRef.current
updateSkipped(mounted, inProgress) == ~mounted \/ inProgress

\* updateRainbowData(showLoading) from its entry to its first await
StartUpdate(r, run) ==
  IF updateSkipped(isMounted, updateInProgress)
    THEN /\ updates' = [updates EXCEPT ![r] = Ended(run, "skipped")]
         /\ UNCHANGED <<updateInProgress, loading>>
  ELSE IF ~hasLocation
    THEN /\ updates' = [updates EXCEPT ![r] = Ended(run, "noLocation")]
         /\ UNCHANGED <<updateInProgress, loading>>
  ELSE /\ updateInProgress' = TRUE
       /\ loading' = (IF run.showLoading /\ isMounted THEN TRUE ELSE loading)
       /\ updates' = [updates EXCEPT ![r] = Running(run, "weather")]

\* a return or a throw inside the try: the finally block, and for a run
\* started by onRefresh the line after its await
FinishUpdate(r, exit) ==
  /\ updateInProgress' = FALSE
  /\ loading' = (IF updates[r].showLoading /\ isMounted THEN FALSE ELSE loading)
  /\ refreshing' = (IF updates[r].trigger = "refresh" /\ isMounted THEN FALSE ELSE refreshing)
  /\ updates' = [updates EXCEPT ![r] = Ended(updates[r], exit)]

\* initializeApp: permissions and location are obtained, or not
InitializeApp(granted) ==
  /\ ~hasLocation
  /\ permissionsGranted' = granted
  /\ hasLocation' = granted
  /\ loading' = FALSE
  /\ UNCHANGED <<isMounted, updateInProgress, refreshing, updates>>
  /\ UNCHANGED notApp

\* the setInterval callback
TimerFires(r) ==
  /\ updates[r].phase = "idle"
  /\ IF isMounted /\ hasLocation /\ permissionsGranted /\ ~updateInProgress
       THEN StartUpdate(r, Triggered("timer", FALSE))
       ELSE /\ updates' = [updates EXCEPT ![r] = Ended(Triggered("timer", FALSE), "skipped")]
            /\ UNCHANGED <<updateInProgress, loading>>
  /\ UNCHANGED <<isMounted, hasLocation, permissionsGranted, refreshing>>
  /\ UNCHANGED notApp

\* onRefresh
PullToRefresh(r) ==
  /\ updates[r].phase = "idle"
  /\ IF ~isMounted \/ updateInProgress
       THEN /\ updates' = [updates EXCEPT ![r] = Ended(Triggered("refresh", FALSE), "skipped")]
            /\ UNCHANGED <<updateInProgress, loading, refreshing>>
       ELSE /\ StartUpdate(r, Triggered("refresh", FALSE))
            /\ refreshing' = hasLocation
  /\ UNCHANGED <<isMounted, hasLocation, permissionsGranted>>
  /\ UNCHANGED notApp

\* the update button: onPress={() => updateRainbowData(true)}, disabled
\* while loading
PressUpdate(r) ==
  /\ updates[r].phase = "idle"
  /\ ~loading
  /\ StartUpdate(r, Triggered("button", TRUE))
  /\ UNCHANGED <<isMounted, hasLocation, permissionsGranted, refreshing>>
  /\ UNCHANGED notApp

\* the retry button of the alert an earlier run showed when it failed:
\* onPress: () => updateRainbowData(showLoading)
PressRetry(r, failed) ==
  /\ updates[r].phase = "idle"
  /\ failed # r
  /\ updates[failed].phase = "ended"
  /\ updates[failed].exit \in {"weatherError", "exception"}
  /\ StartUpdate(r, Triggered("retry", updates[failed].showLoading))
  /\ UNCHANGED <<isMounted, hasLocation, permissionsGranted, refreshing>>
  /\ UNCHANGED notApp

UpdateOutcomes == {"weatherError", "sunError", "rainbowError", "exception", "ok"}

\* getCurrentWeather settles; the calculations that follow have no await
WeatherSettles(r, settled) ==
  /\ updates[r].phase = "weather"
  /\ IF settled = "weatherError" THEN FinishUpdate(r, "weatherError")
     ELSE IF ~isMounted THEN FinishUpdate(r, "unmounted")
     ELSE IF settled # "ok" THEN FinishUpdate(r, settled)
     ELSE /\ updates' = [updates EXCEPT ![r] = Running(updates[r], "notify")]
          /\ UNCHANGED <<updateInProgress, loading, refreshing>>
  /\ UNCHANGED <<isMounted, hasLocation, permissionsGranted>>
  /\ UNCHANGED notApp

\* checkNotificationConditions settles (its error is caught and logged)
NotificationSettles(r) ==
  /\ updates[r].phase = "notify"
  /\ FinishUpdate(r, "success")
  /\ UNCHANGED <<isMounted, hasLocation, permissionsGranted>>
  /\ UNCHANGED notApp

\* the cleanup of the first effect
Unmount ==
  /\ isMounted
  /\ isMounted' = FALSE
  /\ UNCHANGED <<updateInProgress, hasLocation, permissionsGranted, loading, refreshing, updates>>
  /\ UNCHANGED notApp

AppInit ==
  /\ isMounted = TRUE
  /\ updateInProgress = FALSE
  /\ hasLocation \in BOOLEAN
  /\ permissionsGranted = hasLocation
  /\ loading = ~hasLocation
  /\ refreshing = FALSE
  /\ updates = [r \in UpdateRuns |-> NotCalled]
  /\ ScorerIdle
  /\ SearchIdle
  /\ ForecastIdle
  /\ SolarIdle
  /\ MonitorIdle
  /\ AngleIdle
  /\ FactorIdle

AppNext ==
  \/ \E granted \in BOOLEAN : InitializeApp(granted)
  \/ \E r \in UpdateRuns : TimerFires(r)
  \/ \E r \in UpdateRuns : PullToRefresh(r)
  \/ \E r \in UpdateRuns : PressUpdate(r)
  \/ \E r, failed \in UpdateRuns : PressRetry(r, failed)
  \/ \E r \in UpdateRuns, settled \in UpdateOutcomes : WeatherSettles(r, settled)
  \/ \E r \in UpdateRuns : NotificationSettles(r)
  \/ Unmount

AppSpec == AppInit /\ [][AppNext]_vars

\* the updateRainbowData runs that are between their start and their end
InProgress == { r \in UpdateRuns : updates[r].phase \in {"weather", "notify"} }

\* C29: at most one updateRainbowData run is in progress at any time,
\* whatever triggers arrive (a trigger arriving during a run is skipped),
\* and the in-progress flag is cleared on every exit path of a run, so the
\* flag is set exactly while a run is in progress and a trigger arriving
\* afterwards with the component mounted and located starts a run.
C29_SingleUpdateInProgress ==
  /\ [](Cardinality(InProgress) <= 1)
  /\ [](updateInProgress <=> InProgress # {})
  /\ [][\A r \in UpdateRuns :
          (updates[r].phase = "idle" /\ updates'[r].phase # "idle")
            => IF InProgress # {}
                 THEN updates'[r].phase = "ended" /\ updates'[r].exit = "skipped"
                 ELSE (isMounted /\ hasLocation /\ updates'[r].trigger # "timer")
                        => updates'[r].phase = "weather"]_vars

\* C29 witness: one trigger was skipped during a run, that run has ended
\* with a failed fetch, and a later trigger has started the next run
C29_Witness ==
  \E a, b, c \in UpdateRuns :
    /\ updates[a].phase = "ended" /\ updates[a].exit = "weatherError"
    /\ updates[b].phase = "ended" /\ updates[b].exit = "skipped"
    /\ updates[b].trigger = "button"
    /\ updates[c].phase = "weather"
    /\ updateInProgress

\* every factor that enters the base probability is within [0, 1]
BaseFactorsInUnitRange ==
  /\ InUnitRange(factorOutput.sunAngleFactor)
  /\ InUnitRange(factorOutput.weatherFactors.recentRainFactor)
  /\ InUnitRange(factorOutput.weatherFactors.sunlightFactor)
  /\ InUnitRange(factorOutput.weatherFactors.cloudFactor)
  /\ InUnitRange(factorOutput.weatherFactors.visibilityFactor)
  /\ InUnitRange(factorOutput.weatherFactors.humidityFactor)
  /\ InUnitRange(factorOutput.weatherFactors.rainFactor)
  /\ InUnitRange(factorOutput.atmosphericFactors.lightScatteringFactor)

\* C25: the base-probability weights are non-negative and sum to exactly 1,
\* so the base probability is within [0, 100] whenever every factor is
\* within [0, 1]; recent-rain and sun-angle are the two largest weights, each
\* strictly larger than the sunlight, cloud, visibility, humidity,
\* current-rain and scattering weights.
C25_BaseWeights ==
  LET minor == { baseWeights.sunlight, baseWeights.cloud, baseWeights.visibility,
                 baseWeights.humidity, baseWeights.rain, baseWeights.lightScattering }
  IN  /\ \A name \in DOMAIN baseWeights : baseWeights[name] >= 0
      /\ baseWeights.recentRain + baseWeights.sunAngle + baseWeights.sunlight
           + baseWeights.cloud + baseWeights.visibility + baseWeights.humidity
           + baseWeights.rain + baseWeights.lightScattering = 1000
      /\ \A w \in minor : baseWeights.recentRain > w /\ baseWeights.sunAngle > w
      /\ (FactorsComputed /\ BaseFactorsInUnitRange)
           => /\ factorOutput.baseProbability >= 0
              /\ factorOutput.baseProbability <= 100 * 1000

\* C25 witness: a snapshot with every factor within [0, 1] whose base
\* probability is above 99 percent
C25_Witness ==
  /\ FactorsComputed
  /\ BaseFactorsInUnitRange
  /\ factorOutput.baseProbability > 99 * 1000
  /\ factorOutput.baseProbability <= 100 * 1000

====
